---- MODULE Spec2Model ----
(***************************************************************************)
(* A model of the document reconstruction and validation core of           *)
(* documents-to-ai-readable-data: the Normalizer and the QA runner         *)
(* (step_60_normalize_validate.py), the balance sheet checker, the         *)
(* Block/Table Refiner (block_type_refine.py), the Document Merger         *)
(* (step_50_merge_reading_order.py) and the Semantic Classifier            *)
(* (step_55_semantic_classify.py).                                         *)
(*                                                                         *)
(* Text.  A text is a sequence of symbols.  A symbol is one character     *)
(* (a digit, a space, a dot, ...; SHY is U+00AD, NL the newline, EUR the   *)
(* euro sign) or one whole word taken as a unit (a run of letters such as  *)
(* "tase"; non-ASCII letters are written in ASCII, "yhteensa").  str.lower *)
(* and the substring tests of the code are defined symbol by symbol.       *)
(*                                                                         *)
(* Numbers.  Python floats are modelled exactly: a parsed number is the    *)
(* integer value * 10^Scale; 0.005 and 0.1 are written as the fractions    *)
(* 5/1000 and 1/10 and comparisons are cross-multiplied.                   *)
(***************************************************************************)
EXTENDS Integers, Sequences, FiniteSets, TLC

VARIABLES
    doc,        \* the Document being processed (mutated in place by the stages)
    input,      \* the Document as it was handed to the stage under study
    pc,         \* position of the stage under study
    behav,      \* what each checker's check() does: "raise" or the findings it returns
    ran,        \* names of the checkers whose check() has been entered, in order
    report,     \* <<the QAReport returned by run_qa_checks>>, or <<>> before it returns
    files,      \* output files written by normalize_and_validate
    runs,       \* number of times normalize_document has been applied
    findings,   \* the list returned by the checker under study
    refined,    \* <<what refine_block_types returned>>, or <<>> before it returns
    cursor,     \* index of the page the running loop of classify_document is at
    page_offset,    \* classify_document's local page_offset
    toc_target_map, \* classify_document's local toc_target_map
    hist        \* the steps classify_document has taken, in order

vars == <<doc, input, pc, behav, ran, report, files, runs, findings,
          refined, cursor, page_offset, toc_target_map, hist>>

\* The variables only the Refiner and the Classifier write.
stageVars == <<refined, cursor, page_offset, toc_target_map, hist>>

\* The variables only the QA runner writes.
qaVars == <<behav, ran, report, files, runs>>

\* Python's None, for an optional string.
NoValue == "None"

\* An optional integer: None, or the integer n.
NoInt == [is_none |-> TRUE, value |-> 0]
SomeInt(n) == [is_none |-> FALSE, value |-> n]

-----------------------------------------------------------------------------
(* Generic helpers *)

\* The sequences over S of length 0..n.
SeqsUpTo(S, n) == UNION {[1..k -> S] : k \in 0..n}

RECURSIVE SumSeq(_)
SumSeq(s) == IF s = <<>> THEN 0 ELSE Head(s) + SumSeq(Tail(s))

RECURSIVE Pow10(_)
Pow10(n) == IF n = 0 THEN 1 ELSE 10 * Pow10(n - 1)

Abs(x) == IF x < 0 THEN -x ELSE x

Max(a, b) == IF a >= b THEN a ELSE b

-----------------------------------------------------------------------------
(* Characters *)

SHY == "SHY"
NL == "NL"

\* Longest text (in characters) drawn for the Normalizer.
MaxLen == 5

\* Characters a block or cell text is drawn from in SpecNorm.
NormAlphabet == {" ", SHY, NL, "a", "1"}

\* The characters U+20AC (euro sign) and "t" of the unit markers.
EUR == "EUR"

Digits == {"0", "1", "2", "3", "4", "5", "6", "7", "8", "9"}

DigitVal(c) ==
    CASE c = "0" -> 0 [] c = "1" -> 1 [] c = "2" -> 2 [] c = "3" -> 3 [] c = "4" -> 4
      [] c = "5" -> 5 [] c = "6" -> 6 [] c = "7" -> 7 [] c = "8" -> 8 [] c = "9" -> 9

\* str.strip() with no argument removes whitespace; of the model's characters
\* the space and the newline are whitespace (U+00AD is not).
IsWhitespace(c) == c \in {" ", NL}

RECURSIVE LStrip(_)
LStrip(t) == IF t # <<>> /\ IsWhitespace(Head(t)) THEN LStrip(Tail(t)) ELSE t

RECURSIVE RStrip(_)
RStrip(t) ==
    IF t # <<>> /\ IsWhitespace(t[Len(t)]) THEN RStrip(SubSeq(t, 1, Len(t) - 1)) ELSE t

Strip(t) == RStrip(LStrip(t))

\* str.replace(c, ""): every occurrence of the character c removed.
RemoveChar(t, c) == SelectSeq(t, LAMBDA x : x # c)

\* str.replace(a, b) for single characters.
ReplaceChar(t, a, b) == [i \in 1..Len(t) |-> IF t[i] = a THEN b ELSE t[i]]

\* Number of leading characters of t equal to c.
RECURSIVE RunLen(_, _)
RunLen(t, c) == IF t # <<>> /\ Head(t) = c THEN 1 + RunLen(Tail(t), c) ELSE 0

\* re.sub(r" +", " ", text): every run of spaces becomes one space.
RECURSIVE CollapseSpaces(_)
CollapseSpaces(t) ==
    IF t = <<>> THEN <<>>
    ELSE IF Head(t) = " "
         THEN <<" ">> \o CollapseSpaces(SubSeq(t, RunLen(t, " ") + 1, Len(t)))
         ELSE <<Head(t)>> \o CollapseSpaces(Tail(t))

\* re.sub(r"\n{3,}", "\n\n", text): a run of three or more newlines becomes two.
RECURSIVE CollapseNewlines(_)
CollapseNewlines(t) ==
    IF t = <<>> THEN <<>>
    ELSE IF Head(t) = NL
         THEN LET n == RunLen(t, NL)
                  rest == CollapseNewlines(SubSeq(t, n + 1, Len(t)))
              IN  (IF n >= 3 THEN <<NL, NL>> ELSE [i \in 1..n |-> NL]) \o rest
         ELSE <<Head(t)>> \o CollapseNewlines(Tail(t))

\* The decimal number whose digits are ds (most significant first).
RECURSIVE DigitsVal(_)
DigitsVal(ds) ==
    IF ds = <<>> THEN 0 ELSE DigitsVal(SubSeq(ds, 1, Len(ds) - 1)) * 10 + DigitVal(ds[Len(ds)])

\* Whether pat occurs in t as a contiguous run of characters (Python's: pat in t).
Occurs(pat, t) ==
    \E i \in 1..(Len(t) - Len(pat) + 1) : SubSeq(t, i, i + Len(pat) - 1) = pat

\* str.replace(pat, "") for a pattern of two characters, scanning left to right.
RECURSIVE RemovePair(_, _)
RemovePair(t, pat) ==
    IF Len(t) < 2 THEN t
    ELSE IF SubSeq(t, 1, 2) = pat THEN RemovePair(SubSeq(t, 3, Len(t)), pat)
         ELSE <<Head(t)>> \o RemovePair(Tail(t), pat)

-----------------------------------------------------------------------------
(* Parsed numbers.  A float is the record [m, e] standing for m / 10^e, kept *)
(* in lowest form (no trailing zero in the fraction), so that two parsed     *)
(* numbers are equal floats exactly when the records are equal.              *)

\* None, for an optional float (no parsed number has e < 0).
NoNumber == [m |-> 0, e |-> 0 - 1]

RECURSIVE Canon(_, _)
Canon(m, e) == IF e > 0 /\ m % 10 = 0 THEN Canon(m \div 10, e - 1) ELSE [m |-> m, e |-> e]

Negate(v) == [m |-> -v.m, e |-> v.e]

\* v * 10^k as an integer, for k >= v.e.
Scaled(v, k) == v.m * Pow10(k - v.e)

\* Where the first match of -?\d+\.?\d* starts in t (0: no match): the leftmost
\* digit, or the "-" right before it.
MatchStart(t) ==
    LET starts == {i \in 1..Len(t) :
                      \/ t[i] \in Digits
                      \/ t[i] = "-" /\ i < Len(t) /\ t[i + 1] \in Digits}
    IN  IF starts = {} THEN 0 ELSE CHOOSE i \in starts : \A j \in starts : i <= j

\* The longest run of digits at the head of t.
RECURSIVE DigitRun(_)
DigitRun(t) ==
    IF t # <<>> /\ Head(t) \in Digits THEN <<Head(t)>> \o DigitRun(Tail(t)) ELSE <<>>

\* float(re.search(r"-?\d+\.?\d*", t).group()), or NoNumber when nothing matches.
SearchNumber(t) ==
    LET i == MatchStart(t)
    IN  IF i = 0 THEN NoNumber
        ELSE LET minus == t[i] = "-"
                 from == SubSeq(t, IF minus THEN i + 1 ELSE i, Len(t))
                 ip == DigitRun(from)
                 rest == SubSeq(from, Len(ip) + 1, Len(from))
                 fp == IF rest # <<>> /\ Head(rest) = "." THEN DigitRun(Tail(rest)) ELSE <<>>
                 v == Canon(DigitsVal(ip \o fp), Len(fp))
             IN  IF minus THEN Negate(v) ELSE v

\* text.startswith("(") and text.endswith(")")
IsParenthesised(t) == t # <<>> /\ Head(t) = "(" /\ t[Len(t)] = ")"

-----------------------------------------------------------------------------
(* The document model: src/schemas/models.py *)

BBox(x0, y0, x1, y1) == [x0 |-> x0, y0 |-> y0, x1 |-> x1, y1 |-> y1]

\* font_bold stands for (font_stats and font_stats.bold).
MkBlock(id, text, bbox) ==
    [kind |-> "block", block_id |-> id, text |-> text, bbox |-> bbox,
     font_bold |-> FALSE, semantic_type |-> NoValue, financial_type |-> NoValue,
     classification_evidence |-> <<>>,
     toc_target_page |-> NoInt, pdf_target_page |-> NoInt]

MkCell(row, col, text) ==
    [row |-> row, col |-> col, text_raw |-> text, value_num |-> NoNumber, unit |-> NoValue]

MkTable(id, bbox, cells) ==
    [kind |-> "table", table_id |-> id, bbox |-> bbox, cells |-> cells,
     semantic_type |-> NoValue, financial_type |-> NoValue,
     classification_evidence |-> <<>>]

MkPage(index, width, height, items) ==
    [page_index |-> index, width |-> width, height |-> height,
     semantic_section |-> NoValue, semantic_confidence |-> NoInt, items |-> items]

MkDocument(pages) == [pages |-> pages, page_number_offset |-> NoInt]

IsBlock(item) == item.kind = "block"
IsTable(item) == item.kind = "table"

-----------------------------------------------------------------------------
(* Normalizer: step_60_normalize_validate.py *)

\* The unit marker found in the text: the tests run in the code's order.
UnitOf(t) ==
    IF EUR \in {t[i] : i \in 1..Len(t)} THEN "EUR"
    ELSE IF Occurs(<<"t", EUR>>, t) THEN "tEUR"
    ELSE IF "%" \in {t[i] : i \in 1..Len(t)} THEN "%"
    ELSE NoValue

\* The text with the marker UnitOf found removed.
StripUnit(t) ==
    CASE UnitOf(t) = "EUR" -> RemoveChar(t, EUR)
      [] UnitOf(t) = "tEUR" -> RemovePair(t, <<"t", EUR>>)
      [] UnitOf(t) = "%" -> RemoveChar(t, "%")
      [] OTHER -> t

\* A variant of normalize_number that parses the text only when all that is
\* left of it is digits.
normalize_number_DigitsOnly(text) ==
    IF Strip(text) = <<>> THEN <<NoNumber, NoValue>>
    ELSE LET t1 == ReplaceChar(RemoveChar(Strip(text), " "), ",", ".")
             unit == UnitOf(t1)
             t2 == StripUnit(t1)
             is_negative == IsParenthesised(t2)
             t3 == IF is_negative THEN SubSeq(t2, 2, Len(t2) - 1) ELSE t2
             value == IF \A i \in 1..Len(t3) : t3[i] \in Digits
                      THEN SearchNumber(t3) ELSE NoNumber
         IN  IF value = NoNumber THEN <<NoNumber, NoValue>>
             ELSE <<IF is_negative THEN Negate(value) ELSE value, unit>>

\* normalize_number returns the pair (value, unit).
normalize_number(text) ==
    IF Strip(text) = <<>> THEN <<NoNumber, NoValue>>
    ELSE LET t1 == ReplaceChar(RemoveChar(Strip(text), " "), ",", ".")
             unit == UnitOf(t1)
             t2 == StripUnit(t1)
             is_negative == IsParenthesised(t2)
             t3 == IF is_negative THEN SubSeq(t2, 2, Len(t2) - 1) ELSE t2
             value == SearchNumber(t3)
         IN  IF value = NoNumber THEN <<NoNumber, NoValue>>
             ELSE <<IF is_negative THEN Negate(value) ELSE value, unit>>

normalize_text(text) ==
    Strip(CollapseNewlines(RemoveChar(CollapseSpaces(text), SHY)))

NormalizeCell(cell) ==
    LET t == normalize_text(cell.text_raw)
        n == normalize_number(t)
    IN  [cell EXCEPT !.text_raw = t, !.value_num = n[1], !.unit = n[2]]

NormalizeItem(item) ==
    IF IsTable(item)
    THEN [item EXCEPT !.cells = [i \in 1..Len(item.cells) |-> NormalizeCell(item.cells[i])]]
    ELSE [item EXCEPT !.text = normalize_text(item.text)]

normalize_document(d) ==
    [d EXCEPT !.pages = [p \in 1..Len(d.pages) |->
        [d.pages[p] EXCEPT !.items = [i \in 1..Len(d.pages[p].items) |->
            NormalizeItem(d.pages[p].items[i])]]]]

-----------------------------------------------------------------------------
(* SpecNorm: normalize_document applied repeatedly to one Document whose     *)
(* single item is a Block or a one-cell Table with an arbitrary text.        *)

\* How many times in a row normalize_document is applied.
MaxRuns == 2

PageBox == BBox(10, 20, 90, 80)

NormTexts == SeqsUpTo(NormAlphabet, MaxLen)

NormItems ==
    {MkBlock("b1", t, PageBox) : t \in NormTexts}
    \cup {MkTable("t1", PageBox, <<MkCell(0, 0, t)>>) : t \in NormTexts}

NoBehav == <<>>

\* Neither the Refiner nor the Classifier has run.
StageIdle ==
    /\ refined = <<>>
    /\ cursor = 0
    /\ page_offset = NoInt
    /\ toc_target_map = <<>>
    /\ hist = <<>>

InitNorm ==
    /\ doc \in {MkDocument(<<MkPage(0, 100, 100, <<item>>)>>) : item \in NormItems}
    /\ input = doc
    /\ pc = "normalizer"
    /\ behav = NoBehav
    /\ ran = <<>>
    /\ report = <<>>
    /\ files = {}
    /\ runs = 0
    /\ findings = <<>>
    /\ StageIdle

\* One call of normalize_document on the Document, which it mutates in place.
NormalizeDocument ==
    /\ pc = "normalizer"
    /\ runs < MaxRuns
    /\ input' = doc
    /\ doc' = normalize_document(doc)
    /\ runs' = runs + 1
    /\ UNCHANGED <<pc, behav, ran, report, files, findings, stageVars>>

NextNorm == NormalizeDocument

SpecNorm == InitNorm /\ [][NextNorm]_vars

\* What idempotence compares: every Block's text, every Cell's text_raw and value_num.
ItemView(item) ==
    IF IsTable(item)
    THEN [i \in 1..Len(item.cells) |-> <<item.cells[i].text_raw, item.cells[i].value_num>>]
    ELSE item.text

DocView(d) ==
    [p \in 1..Len(d.pages) |->
        [i \in 1..Len(d.pages[p].items) |-> ItemView(d.pages[p].items[i])]]

\* C3 (as claimed): normalize_document is idempotent: applied to its own output
\* it leaves every Block's text and every Cell's text_raw and value_num unchanged.
C3_NormalizeIdempotent == runs >= 2 => DocView(doc) = DocView(input)

-----------------------------------------------------------------------------
(* QA runner: run_qa_checks and normalize_and_validate                       *)

\* The checkers run_qa_checks builds, in its order.
Checkers ==
    <<"SchemaChecker", "SumChecker", "SemanticSectionChecker", "OCRQualityChecker",
      "BalanceSheetChecker", "CrossRefChecker", "DiffChecker">>

CheckerNames == {Checkers[i] : i \in 1..Len(Checkers)}

Finding(checker, page_index, severity, reason) ==
    [checker |-> checker, page_index |-> page_index, severity |-> severity, reason |-> reason]

\* What one call of checker.check(document) does: it raises, or returns findings.
\* Every checker builds its findings with checker = self.name.
OutcomeKinds == {"raises", "returns_nothing", "returns_finding"}

CheckOutcome(name, kind) ==
    [raises |-> kind = "raises",
     findings |-> IF kind = "returns_finding"
                  THEN <<Finding(name, 0, "error", "found")>> ELSE <<>>]

\* A variant of RunOneChecker whose except branch attributes the ERROR finding
\* to the runner instead of the failing checker.
RunOneChecker_Unattributed(acc, name, outcome) ==
    IF outcome.raises
    THEN [acc EXCEPT !.ran = Append(@, name),
                     !.findings = Append(@, Finding("run_qa_checks", 0, "error", "Checker error"))]
    ELSE [acc EXCEPT !.ran = Append(@, name),
                     !.findings = @ \o outcome.findings,
                     !.schema_valid = IF name = "SchemaChecker" /\ outcome.findings # <<>>
                                      THEN FALSE ELSE @]

\* One turn of the loop over the checkers: the try/except around check().
RunOneChecker(acc, name, outcome) ==
    IF outcome.raises
    THEN [acc EXCEPT !.ran = Append(@, name),
                     !.findings = Append(@, Finding(name, 0, "error", "Checker error"))]
    ELSE [acc EXCEPT !.ran = Append(@, name),
                     !.findings = @ \o outcome.findings,
                     !.schema_valid = IF name = "SchemaChecker" /\ outcome.findings # <<>>
                                      THEN FALSE ELSE @]

\* The loop over the first n checkers.
RECURSIVE RunCheckers(_, _)
RunCheckers(n, outcomes) ==
    IF n = 0 THEN [findings |-> <<>>, schema_valid |-> TRUE, ran |-> <<>>]
    ELSE RunOneChecker(RunCheckers(n - 1, outcomes), Checkers[n], outcomes[Checkers[n]])

\* All cells of all tables of the document, in order.
RECURSIVE Flatten(_)
Flatten(ss) == IF ss = <<>> THEN <<>> ELSE Head(ss) \o Flatten(Tail(ss))

ItemCells(item) == IF IsTable(item) THEN item.cells ELSE <<>>

PageCells(page) == Flatten([i \in 1..Len(page.items) |-> ItemCells(page.items[i])])

DocumentCells(d) == Flatten([p \in 1..Len(d.pages) |-> PageCells(d.pages[p])])

HasDigit(t) == \E i \in 1..Len(t) : t[i] \in Digits

\* The percentage count / total * 100 as the fraction [num / den]; 0.0 when total = 0.
Percent(count, total) ==
    IF total > 0 THEN [num |-> count * 100, den |-> total] ELSE [num |-> 0, den |-> 1]

TableCellExactness(d) ==
    LET cells == DocumentCells(d)
        total_cells == Len(cells)
        empty_cells == Cardinality({i \in 1..Len(cells) : Strip(cells[i].text_raw) = <<>>})
        unparseable_numbers ==
            Cardinality({i \in 1..Len(cells) :
                /\ cells[i].value_num = NoNumber
                /\ Strip(cells[i].text_raw) # <<>>
                /\ HasDigit(cells[i].text_raw)})
    IN  [empty_cells_percent |-> Percent(empty_cells, total_cells),
         unparseable_numbers_percent |-> Percent(unparseable_numbers, total_cells)]

\* run_qa_checks(document), given what each checker's check() does; ran lists
\* the checkers whose check() was entered.
run_qa_checks(d, outcomes) ==
    LET acc == RunCheckers(Len(Checkers), outcomes)
    IN  [report |-> [schema_valid |-> acc.schema_valid,
                     table_cell_exactness |-> TableCellExactness(d),
                     sum_checks |-> <<>>, balance_checks |-> <<>>,
                     xref_checks |-> <<>>, diff_checks |-> <<>>,
                     findings |-> acc.findings],
         ran |-> acc.ran]

\* total_items = sum(len(page.items) for page in document.pages)
TotalItems(d) == SumSeq([p \in 1..Len(d.pages) |-> Len(d.pages[p].items)])

\* A variant of the guard that raises as soon as one page has no items.
DocumentIsEmpty_SomePage(d) == \E p \in 1..Len(d.pages) : Len(d.pages[p].items) = 0

\* The guard of normalize_and_validate: whether it raises ValueError.
DocumentIsEmpty(d) == TotalItems(d) = 0

-----------------------------------------------------------------------------
(* SpecQA: normalize_and_validate on a Document of 0..MaxPagesQA pages, with *)
(* checkers that raise or return findings.                                   *)

MaxPagesQA == 2

\* What a page may hold: nothing, a Block or a one-cell Table (texts that the
\* Normalizer changes).
QAPageItems ==
    { <<>>,
      <<MkBlock("b1", <<" ", "a">>, PageBox)>>,
      <<MkTable("t1", PageBox, <<MkCell(0, 0, <<"1", " ">>)>>)>> }

QADocs ==
    {MkDocument([p \in 1..n |-> MkPage(p - 1, 100, 100, its[p])]) :
        n \in 0..MaxPagesQA, its \in [1..MaxPagesQA -> QAPageItems]}

InitQA ==
    /\ doc \in QADocs
    /\ input = doc
    /\ pc = "nv_start"
    /\ behav = NoBehav
    /\ ran = <<>>
    /\ report = <<>>
    /\ files = {}
    /\ runs = 0
    /\ findings = <<>>
    /\ StageIdle

\* normalize_and_validate, lines 192-199: the empty-document guard.
NV_Guard ==
    /\ pc = "nv_start"
    /\ pc' = IF DocumentIsEmpty(doc) THEN "nv_raised" ELSE "nv_guarded"
    /\ UNCHANGED <<doc, input, behav, ran, report, files, runs, findings, stageVars>>

\* line 201: normalized = normalize_document(document)
NV_Normalize ==
    /\ pc = "nv_guarded"
    /\ doc' = normalize_document(doc)
    /\ runs' = runs + 1
    /\ pc' = "nv_normalized"
    /\ UNCHANGED <<input, behav, ran, report, files, findings, stageVars>>

\* line 202: qa_report = run_qa_checks(normalized)
NV_RunQaChecks ==
    /\ pc = "nv_normalized"
    /\ \E kinds \in [CheckerNames -> OutcomeKinds] :
          LET outcomes == [c \in CheckerNames |-> CheckOutcome(c, kinds[c])]
              r == run_qa_checks(doc, outcomes)
          IN  behav' = outcomes /\ report' = <<r.report>> /\ ran' = r.ran
    /\ pc' = "nv_checked"
    /\ UNCHANGED <<doc, input, files, runs, findings, stageVars>>

\* lines 204-217: both files are written, then the pair is returned.
NV_Save ==
    /\ pc = "nv_checked"
    /\ files' = {"document.json", "qa_report.json"}
    /\ pc' = "nv_returned"
    /\ UNCHANGED <<doc, input, behav, ran, report, runs, findings, stageVars>>

NextQA == NV_Guard \/ NV_Normalize \/ NV_RunQaChecks \/ NV_Save

SpecQA == InitQA /\ [][NextQA]_vars

\* The findings of the sequence fs that name the checker c, in order.
FindingsOf(fs, c) == SelectSeq(fs, LAMBDA f : f.checker = c)

\* C1: when checkers raise inside run_qa_checks, every checker is still run, in
\* order, the report holds the findings every other checker returned, and for
\* each failing checker exactly one finding, of severity ERROR, that names it.
C1_CheckerIsolation ==
    pc \in {"nv_checked", "nv_returned"} =>
        /\ report # <<>>
        /\ ran = Checkers
        /\ \A c \in CheckerNames :
              LET mine == FindingsOf(report[1].findings, c)
              IN  IF behav[c].raises
                  THEN Len(mine) = 1 /\ mine[1].severity = "error"
                  ELSE mine = behav[c].findings

\* A run in which SumChecker raises while SchemaChecker, before it, and
\* DiffChecker, after it, return findings.
C1_Witness ==
    /\ pc = "nv_checked"
    /\ behav["SumChecker"].raises
    /\ behav["SchemaChecker"].findings # <<>>
    /\ behav["DiffChecker"].findings # <<>>

\* C2: normalize_and_validate raises exactly when the Document has no item on
\* any page, and then nothing was normalized, no checker ran and no file was
\* written; a Document with an item somewhere is normalized, checked, saved
\* and returned with a report.
C2_EmptyDocumentGuard ==
    /\ pc = "nv_raised" =>
          /\ TotalItems(input) = 0
          /\ doc = input /\ runs = 0 /\ ran = <<>> /\ report = <<>> /\ files = {}
    /\ TotalItems(input) = 0 => pc \in {"nv_start", "nv_raised"}
    /\ pc \in {"nv_guarded", "nv_normalized", "nv_checked"} => TotalItems(input) > 0
    /\ pc = "nv_returned" =>
          /\ TotalItems(input) > 0
          /\ runs = 1 /\ ran = Checkers /\ report # <<>>
          /\ files = {"document.json", "qa_report.json"}

\* A Document with an empty page and a non-empty page has been returned.
C2_Witness ==
    /\ pc = "nv_returned"
    /\ TotalItems(input) > 0
    /\ \E p \in 1..Len(input.pages) : Len(input.pages[p].items) = 0

\* The guard has raised on a Document of two empty pages.
C2_WitnessRaised == pc = "nv_raised" /\ Len(input.pages) = 2

-----------------------------------------------------------------------------
(* Words.  str.lower() and Python's substring test, symbol by symbol.        *)

\* str.lower() of one symbol: the capitalised words of the model's vocabulary.
LowerSym(w) ==
    CASE w = "Vastaavaa" -> "vastaavaa"
      [] w = "Vastattavaa" -> "vastattavaa"
      [] w = "VASTAAVAA" -> "vastaavaa"
      [] w = "VASTATTAVAA" -> "vastattavaa"
      [] w = "Sisallysluettelo" -> "sisallysluettelo"
      [] w = "Sivu" -> "sivu"
      [] w = "Tase" -> "tase"
      [] w = "Liite" -> "liite"
      [] w = "Yhteensa" -> "yhteensa"
      [] OTHER -> w

Lower(t) == [i \in 1..Len(t) |-> LowerSym(t[i])]

\* The keyword words that a word of the vocabulary begins with, besides itself
\* ("yht" in "yhteensa", "liite" in "liitetiedot", "tulos" in "tuloslaskelma",
\* "sisallys" in "sisallysluettelo").
Prefixes(w) ==
    CASE w = "yhteensa" -> {"yht"}
      [] w = "summa" -> {"sum"}
      [] w = "liitetiedot" -> {"liite"}
      [] w = "tuloslaskelma" -> {"tulos"}
      [] w = "sisallysluettelo" -> {"sisallys"}
      [] OTHER -> {}

\* Python's (kw in t) for a keyword kw of one or more words separated by
\* spaces: its symbols occur in t in a row, the last one possibly as the
\* beginning of a longer word.
Contains(t, kw) ==
    \E i \in 1..(Len(t) - Len(kw) + 1) :
        /\ \A j \in 1..(Len(kw) - 1) : t[i + j - 1] = kw[j]
        /\ LET last == t[i + Len(kw) - 1]
           IN  last = kw[Len(kw)] \/ kw[Len(kw)] \in Prefixes(last)

\* any(kw in t for kw in kws)
ContainsAny(t, kws) == \E kw \in kws : Contains(t, kw)

-----------------------------------------------------------------------------
(* BalanceSheetChecker: checkers/balance_sheet_checker.py                    *)

\* BalanceSheetChecker.parse_number: all three unit markers are removed, in
\* the code's order, and only the number is returned.
BS_parse_number(text) ==
    IF Strip(text) = <<>> THEN NoNumber
    ELSE LET t1 == ReplaceChar(RemoveChar(Strip(text), " "), ",", ".")
             t2 == RemoveChar(RemovePair(RemoveChar(t1, EUR), <<"t", EUR>>), "%")
             is_negative == IsParenthesised(t2)
             t3 == IF is_negative THEN SubSeq(t2, 2, Len(t2) - 1) ELSE t2
             value == SearchNumber(t3)
         IN  IF value = NoNumber THEN NoNumber
             ELSE IF is_negative THEN Negate(value) ELSE value

assets_keywords ==
    { <<"vastaavaa", " ", "yhteensa">>, <<"vastaavaa", " ", "yht">>,
      <<"total", " ", "assets">>, <<"assets", " ", "total">>,
      <<"yhteensa", " ", "vastaavaa">> }

liabilities_keywords ==
    { <<"vastattavaa", " ", "yhteensa">>, <<"vastattavaa", " ", "yht">>,
      <<"total", " ", "liabilities">>, <<"liabilities", " ", "total">>,
      <<"yhteensa", " ", "vastattavaa">> }

\* The row indices of a table, and the cells of one row in list order
\* (the dict rows of the code, visited in sorted order).
RowIndices(table) == {table.cells[i].row : i \in 1..Len(table.cells)}

RowCells(table, r) == SelectSeq(table.cells, LAMBDA c : c.row = r)

\* The parsed numbers of the cells after the first one, in order.
RowNumbers(row_cells) ==
    LET parsed == [i \in 1..(Len(row_cells) - 1) |-> BS_parse_number(row_cells[i + 1].text_raw)]
    IN  SelectSeq(parsed, LAMBDA v : v # NoNumber)

\* One turn of the row loop of find_balance_totals (lines 85-117): a row whose
\* first cell holds a keyword and that has a numeric value replaces the total
\* found so far by its last numeric value.
RowTotal(row_cells, kws, before) ==
    IF row_cells = <<>> THEN before
    ELSE IF /\ ContainsAny(Strip(Lower(row_cells[1].text_raw)), kws)
            /\ RowNumbers(row_cells) # <<>>
         THEN RowNumbers(row_cells)[Len(RowNumbers(row_cells))]
         ELSE before

\* The total a keyword family finds in the rows r <= upto.
RECURSIVE TotalUpTo(_, _, _)
TotalUpTo(table, kws, upto) ==
    IF upto < 0 THEN NoNumber
    ELSE RowTotal(RowCells(table, upto), kws, TotalUpTo(table, kws, upto - 1))

MaxRow(table) ==
    IF table.cells = <<>> THEN 0 - 1
    ELSE CHOOSE r \in RowIndices(table) : \A q \in RowIndices(table) : q <= r

\* find_balance_totals returns the pair (assets_total, liabilities_total).
find_balance_totals(table) ==
    <<TotalUpTo(table, assets_keywords, MaxRow(table)),
      TotalUpTo(table, liabilities_keywords, MaxRow(table))>>

\* A variant of CompareTotals that treats equality with the tolerance as a mismatch.
CompareTotals_Inclusive(page, a, l) ==
    IF 1000 * Abs(a - l) >= 5 * Max(Abs(a), Abs(l))
    THEN <<Finding("BalanceSheetChecker", page.page_index,
                   IF 1000 * Abs(a - l) < 50 * Max(Abs(a), Abs(l)) THEN "warning" ELSE "error",
                   "Balance sheet equation mismatch")>>
    ELSE <<>>

\* Lines 148-173 of check(): difference = |assets - liabilities| against
\* tolerance = max(|assets|, |liabilities|) * 0.005, written as 5/1000; a and
\* l are the two totals over a common power of ten.
CompareTotals(page, a, l) ==
    IF 1000 * Abs(a - l) > 5 * Max(Abs(a), Abs(l))
    THEN <<Finding("BalanceSheetChecker", page.page_index,
                   IF 1000 * Abs(a - l) < 50 * Max(Abs(a), Abs(l)) THEN "warning" ELSE "error",
                   "Balance sheet equation mismatch")>>
    ELSE <<>>

\* Lines 141-146: nothing is compared unless both totals were found.
TotalsFindings(page, assets_total, liabilities_total) ==
    IF assets_total = NoNumber \/ liabilities_total = NoNumber THEN <<>>
    ELSE CompareTotals(page,
                       Scaled(assets_total, Max(assets_total.e, liabilities_total.e)),
                       Scaled(liabilities_total, Max(assets_total.e, liabilities_total.e)))

\* The findings of check() for one examined table.
BalanceFindings(page, table) ==
    TotalsFindings(page, TotalUpTo(table, assets_keywords, MaxRow(table)),
                         TotalUpTo(table, liabilities_keywords, MaxRow(table)))

\* Whether check() looks at the page at all (lines 128-136).
PageIsExamined(page) ==
    \/ page.semantic_section = "balance_sheet"
    \/ \E i \in 1..Len(page.items) :
          IsTable(page.items[i]) /\ page.items[i].financial_type = "balance_sheet"

\* Whether check() evaluates the table (lines 139-146).
TableIsExamined(item) == IsTable(item) /\ item.financial_type = "balance_sheet"

BalancePageFindings(page) ==
    IF ~PageIsExamined(page) THEN <<>>
    ELSE Flatten([i \in 1..Len(page.items) |->
            IF TableIsExamined(page.items[i]) THEN BalanceFindings(page, page.items[i])
            ELSE <<>>])

BalanceSheetChecker_check(d) ==
    Flatten([p \in 1..Len(d.pages) |-> BalancePageFindings(d.pages[p])])

\* Lines 175-184 of check(): next to every mismatch finding a BalanceCheck
\* record is appended to the local list balance_checks; a and l are the two
\* totals over a common power of ten.
BalanceCheck(page, table, a, l) ==
    IF 1000 * Abs(a - l) > 5 * Max(Abs(a), Abs(l))
    THEN <<[page_index |-> page.page_index, table_id |-> table.table_id,
            assets |-> a, liabilities |-> l, difference |-> Abs(a - l),
            severity |-> IF 1000 * Abs(a - l) < 50 * Max(Abs(a), Abs(l))
                         THEN "warning" ELSE "error"]>>
    ELSE <<>>

TableBalanceChecks(page, table, assets_total, liabilities_total) ==
    IF assets_total = NoNumber \/ liabilities_total = NoNumber THEN <<>>
    ELSE BalanceCheck(page, table,
                      Scaled(assets_total, Max(assets_total.e, liabilities_total.e)),
                      Scaled(liabilities_total, Max(assets_total.e, liabilities_total.e)))

PageBalanceChecks(page) ==
    IF ~PageIsExamined(page) THEN <<>>
    ELSE Flatten([i \in 1..Len(page.items) |->
            IF TableIsExamined(page.items[i])
            THEN TableBalanceChecks(page, page.items[i],
                     TotalUpTo(page.items[i], assets_keywords, MaxRow(page.items[i])),
                     TotalUpTo(page.items[i], liabilities_keywords, MaxRow(page.items[i])))
            ELSE <<>>])

\* The local list balance_checks of check() when it reaches line 186, where
\* only findings is returned.
local_balance_checks(d) ==
    Flatten([p \in 1..Len(d.pages) |-> PageBalanceChecks(d.pages[p])])

-----------------------------------------------------------------------------
(* SpecBalance: BalanceSheetChecker.check on a one-page Document holding one *)
(* table with an assets-total row and a liabilities-total row.               *)

\* Largest |assets - liabilities| drawn.
MaxDiff == 51

DigitChar(d) ==
    CASE d = 0 -> "0" [] d = 1 -> "1" [] d = 2 -> "2" [] d = 3 -> "3" [] d = 4 -> "4"
      [] d = 5 -> "5" [] d = 6 -> "6" [] d = 7 -> "7" [] d = 8 -> "8" [] d = 9 -> "9"

\* The decimal digits of n >= 0.
RECURSIVE IntText(_)
IntText(n) == IF n < 10 THEN <<DigitChar(n)>> ELSE IntText(n \div 10) \o <<DigitChar(n % 10)>>

\* How a report prints the optional amount v: negative amounts in parentheses,
\* a missing amount as a dash.
AmountText(v) ==
    IF v.is_none THEN <<"-">>
    ELSE IF v.value < 0 THEN <<"(">> \o IntText(0 - v.value) \o <<")">>
    ELSE IntText(v.value)

AssetAmounts == {200, 1000}

\* The pairs (assets, liabilities) drawn: liabilities within MaxDiff of the
\* assets, both signs, and either total missing.
BalanceInputs ==
    {[a |-> SomeInt(sign * a), l |-> SomeInt(sign * (a + k))] :
        a \in AssetAmounts, k \in (0 - MaxDiff)..MaxDiff, sign \in {1, 0 - 1}}
    \cup {[a |-> NoInt, l |-> SomeInt(a)] : a \in AssetAmounts}
    \cup {[a |-> SomeInt(a), l |-> NoInt] : a \in AssetAmounts}

BalanceTable(in, financial_type) ==
    [MkTable("t1", PageBox,
        << MkCell(0, 0, <<"Vastaavaa", " ", "yhteensa">>),
           MkCell(0, 1, IF in.a.is_none THEN <<"-">> ELSE <<"7">>),
           MkCell(0, 2, AmountText(in.a)),
           MkCell(1, 0, <<"Vastattavaa", " ", "yhteensa">>),
           MkCell(1, 1, AmountText(in.l)) >>)
     EXCEPT !.financial_type = financial_type]

BalanceDoc(in, financial_type, section) ==
    MkDocument(<<[MkPage(0, 100, 100, <<BalanceTable(in, financial_type)>>)
                  EXCEPT !.semantic_section = section]>>)

InitBalance ==
    /\ \E in \in BalanceInputs,
          ft \in {"balance_sheet", "income_statement", NoValue},
          section \in {"balance_sheet", "appendix"} :
          input = in /\ doc = BalanceDoc(in, ft, section)
    /\ pc = "bs_start"
    /\ behav = NoBehav
    /\ ran = <<>>
    /\ report = <<>>
    /\ files = {}
    /\ runs = 0
    /\ findings = <<>>
    /\ StageIdle

\* One call of BalanceSheetChecker.check(document).
BS_Check ==
    /\ pc = "bs_start"
    /\ findings' = BalanceSheetChecker_check(doc)
    /\ pc' = "bs_done"
    /\ UNCHANGED <<doc, input, qaVars, stageVars>>

\* What the checkers do in one call of run_qa_checks: BalanceSheetChecker
\* returns the given findings, the six other checkers all raise, all return
\* nothing or all return one finding.
BalanceOutcomes(kind, balance_findings) ==
    [c \in CheckerNames |->
        IF c = "BalanceSheetChecker" THEN [raises |-> FALSE, findings |-> balance_findings]
        ELSE CheckOutcome(c, kind)]

\* run_qa_checks(document) on the same Document, where check() returns again
\* the findings it returned in BS_Check.
BS_RunQaChecks ==
    /\ pc = "bs_done"
    /\ \E kind \in OutcomeKinds :
          /\ behav' = BalanceOutcomes(kind, findings)
          /\ report' = <<run_qa_checks(doc, BalanceOutcomes(kind, findings)).report>>
          /\ ran' = run_qa_checks(doc, BalanceOutcomes(kind, findings)).ran
    /\ pc' = "bs_reported"
    /\ UNCHANGED <<doc, input, files, runs, findings, stageVars>>

NextBalance == BS_Check \/ BS_RunQaChecks

SpecBalance == InitBalance /\ [][NextBalance]_vars

C4_WitnessError ==
    /\ pc = "bs_done"
    /\ doc.pages[1].items[1].financial_type = "balance_sheet"
    /\ input.a = SomeInt(1000) /\ input.l = SomeInt(950)
    /\ Len(findings) = 1 /\ findings[1].severity = "error"

-----------------------------------------------------------------------------
(* Regular expressions of the Refiner and the Classifier, on symbol texts.   *)

\* The characters of the model that are not word characters (\w).
NonWordChars == {" ", NL, SHY, EUR, ".", ",", "-", "(", ")", "%"}

IsWordChar(c) == c \notin NonWordChars

\* The string of an item list that is_toc_page and classify_page_with_hard_rules
\* build: " " + text for every Block, " " + text_raw for every Cell.
ItemTexts(item) ==
    IF IsTable(item) THEN [i \in 1..Len(item.cells) |-> item.cells[i].text_raw]
    ELSE <<item.text>>

RECURSIVE SpacePrefixed(_)
SpacePrefixed(texts) ==
    IF texts = <<>> THEN <<>> ELSE <<" ">> \o Head(texts) \o SpacePrefixed(Tail(texts))

AllText(items) == SpacePrefixed(Flatten([i \in 1..Len(items) |-> ItemTexts(items[i])]))

\* " ".join(texts)
RECURSIVE Join(_)
Join(texts) ==
    IF texts = <<>> THEN <<>>
    ELSE IF Len(texts) = 1 THEN Head(texts)
    ELSE Head(texts) \o <<" ">> \o Join(Tail(texts))

\* Length of the match of \d+\.\d+(?:\.\d+)? at the head of t (0: none), given
\* the lengths d1, d2, d3 of the digit runs that the pattern would take.
SectionNumLenOf(t, d1, d2, d3) ==
    IF d1 = 0 \/ d1 + 1 > Len(t) \/ t[d1 + 1] # "." \/ d2 = 0 THEN 0
    ELSE IF d1 + d2 + 2 <= Len(t) /\ t[d1 + d2 + 2] = "." /\ d3 > 0
         THEN d1 + d2 + d3 + 2
         ELSE d1 + d2 + 1

SectionNumLen2(t, d1, d2) ==
    SectionNumLenOf(t, d1, d2, Len(DigitRun(SubSeq(t, d1 + d2 + 3, Len(t)))))

SectionNumLen1(t, d1) ==
    SectionNumLen2(t, d1, Len(DigitRun(SubSeq(t, d1 + 2, Len(t)))))

SectionNumLen(t) == SectionNumLen1(t, Len(DigitRun(t)))

\* len(re.findall(r"\d+\.\d+(?:\.\d+)?", t))
RECURSIVE CountSectionNums(_)
CountSectionNums(t) ==
    IF t = <<>> THEN 0
    ELSE IF SectionNumLen(t) > 0
         THEN 1 + CountSectionNums(SubSeq(t, SectionNumLen(t) + 1, Len(t)))
         ELSE CountSectionNums(Tail(t))

\* len(re.findall(r"\.{3,}", t)): the runs of three or more dots.
RECURSIVE CountDotRuns(_)
CountDotRuns(t) ==
    IF t = <<>> THEN 0
    ELSE IF Head(t) = "."
         THEN (IF RunLen(t, ".") >= 3 THEN 1 ELSE 0)
              + CountDotRuns(SubSeq(t, RunLen(t, ".") + 1, Len(t)))
         ELSE CountDotRuns(Tail(t))

\* len(re.findall(r"\b\d{1,3}\b", t)): the digit runs of at most three digits
\* with no word character on either side.
CountPageNums(t) ==
    Cardinality({i \in 1..Len(t) :
        /\ t[i] \in Digits
        /\ (i = 1 \/ ~IsWordChar(t[i - 1]))
        /\ Len(DigitRun(SubSeq(t, i, Len(t)))) <= 3
        /\ LET after == i + Len(DigitRun(SubSeq(t, i, Len(t))))
           IN  after > Len(t) \/ ~IsWordChar(t[after])})

\* re.search(r"\.{3,}", t) is not None
HasDotLeader(t) == Occurs(<<".", ".", ".">>, t)

\* re.match(r"^\d+$", t) is not None, for a stripped t
IsAllDigits(t) == t # <<>> /\ \A i \in 1..Len(t) : t[i] \in Digits

\* The elements of a finite set of integers in increasing order.
SortedSeq(S) ==
    [r \in 1..Cardinality(S) |-> CHOOSE x \in S : Cardinality({y \in S : y < x}) = r - 1]

\* Python's stable sort: items ordered by keys[i] = <<k1, k2>>, lexicographically,
\* items with equal keys keeping their order.
KeyBefore(keys, j, i) ==
    \/ keys[j][1] < keys[i][1]
    \/ keys[j][1] = keys[i][1] /\ keys[j][2] < keys[i][2]
    \/ keys[j] = keys[i] /\ j < i

StableSort(items, keys) ==
    [r \in 1..Len(items) |->
        items[CHOOSE i \in 1..Len(items) :
                 Cardinality({j \in 1..Len(items) : KeyBefore(keys, j, i)}) = r - 1]]

-----------------------------------------------------------------------------
(* Block/Table Refiner: normalize/block_type_refine.py                       *)

\* toc_keywords of is_toc_page; "sisallysluettelo" stands for both spellings,
\* with and without the diaeresis, which the vocabulary does not tell apart.
toc_keywords ==
    { <<"sisallysluettelo">>, <<"contents">>, <<"table", " ", "of", " ", "contents">> }

CellsWithDots(table) ==
    Cardinality({i \in 1..Len(table.cells) : HasDotLeader(Strip(table.cells[i].text_raw))})

CellsWithPageNumbers(table) ==
    Cardinality({i \in 1..Len(table.cells) : IsAllDigits(Strip(table.cells[i].text_raw))})

\* dot_ratio > 0.1 and page_num_ratio > 0.1, or dot_ratio > 0.2.
detect_toc_pattern(table) ==
    /\ Len(table.cells) >= 3
    /\ \/ /\ 10 * CellsWithDots(table) > Len(table.cells)
          /\ 10 * CellsWithPageNumbers(table) > Len(table.cells)
       \/ 5 * CellsWithDots(table) > Len(table.cells)

TocCounts(all_text) ==
    /\ CountSectionNums(all_text) >= 3
    /\ CountDotRuns(all_text) >= 2
    /\ CountPageNums(all_text) >= 3

\* A variant of is_toc_page that does not look for dotted leaders in tables.
is_toc_page_TextOnly(page_items) ==
    \/ ContainsAny(Lower(AllText(page_items)), toc_keywords)
    \/ TocCounts(AllText(page_items))

is_toc_page(page_items) ==
    \/ ContainsAny(Lower(AllText(page_items)), toc_keywords)
    \/ TocCounts(AllText(page_items))
    \/ \E i \in 1..Len(page_items) :
          IsTable(page_items[i]) /\ detect_toc_pattern(page_items[i])

\* re.search(r"[\d,.\-()]+", text) is not None
LooksNumeric(t) == \E i \in 1..Len(t) : t[i] \in Digits \cup {",", ".", "-", "(", ")"}

NumericCells(table) ==
    Cardinality({i \in 1..Len(table.cells) : LooksNumeric(table.cells[i].text_raw)})

\* A variant of validate_table_structure that accepts a single column.
validate_table_structure_AnyColumns(table) ==
    /\ table.cells # <<>>
    /\ ~(10 * NumericCells(table) < Len(table.cells))

validate_table_structure(table) ==
    /\ table.cells # <<>>
    /\ Cardinality({table.cells[i].col : i \in 1..Len(table.cells)}) >= 2
    /\ ~(10 * NumericCells(table) < Len(table.cells))

\* The text of one row of a converted table: the stripped cell texts, by
\* column, joined by spaces and stripped.
RowText(row_cells) ==
    Strip(Join([i \in 1..Len(row_cells) |->
        Strip(StableSort(row_cells,
                         [k \in 1..Len(row_cells) |-> <<row_cells[k].col, 0>>])[i].text_raw)]))

\* block_id = f"p{page_index}_b_toc_{row_idx}"
TocBlockId(page_index, row_idx) ==
    <<"p">> \o IntText(page_index) \o <<"_b_toc_">> \o IntText(row_idx)

TocRowBlock(table, page_index, row_idx) ==
    [MkBlock(TocBlockId(page_index, row_idx), RowText(RowCells(table, row_idx)), table.bbox)
     EXCEPT !.semantic_type = "list_item"]

\* One Block per row with a non-empty text, in row order.
convert_toc_to_text_blocks(table, page_index) ==
    SelectSeq([r \in 1..Cardinality(RowIndices(table)) |->
                  TocRowBlock(table, page_index, SortedSeq(RowIndices(table))[r])],
              LAMBDA b : b.text # <<>>)

\* Lines 269-287: the stripped non-empty cell texts of an invalid table become
\* one text Block; a table without any text leaves nothing.
NonEmptyCellTexts(table) ==
    SelectSeq([i \in 1..Len(table.cells) |-> Strip(table.cells[i].text_raw)],
              LAMBDA t : t # <<>>)

FromTableBlocks(table, page_index) ==
    IF NonEmptyCellTexts(table) = <<>> THEN <<>>
    ELSE <<[MkBlock(<<"p">> \o IntText(page_index) \o <<"_b_from_table_">> \o table.table_id,
                    Join(NonEmptyCellTexts(table)), table.bbox)
            EXCEPT !.semantic_type = "text"]>>

\* One turn of the loop over the tables of a page (lines 251-290): whether the
\* table is kept, and the blocks appended to the page's blocks.
RefineTable(table, page_index, is_page_toc) ==
    IF is_page_toc \/ detect_toc_pattern(table)
    THEN [keep |-> FALSE, blocks |-> convert_toc_to_text_blocks(table, page_index)]
    ELSE IF ~validate_table_structure(table)
    THEN [keep |-> FALSE, blocks |-> FromTableBlocks(table, page_index)]
    ELSE [keep |-> TRUE, blocks |-> <<>>]

RefinePage(page_index, blocks, tables, is_page_toc) ==
    [tables |-> SelectSeq(tables, LAMBDA t : RefineTable(t, page_index, is_page_toc).keep),
     blocks |-> blocks \o Flatten([k \in 1..Len(tables) |->
                                     RefineTable(tables[k], page_index, is_page_toc).blocks])]

\* dict.get(page_index, [])
GetList(dict, page_index) == IF page_index \in DOMAIN dict THEN dict[page_index] ELSE <<>>

PageIndices(pages) == {pages[i].page_index : i \in 1..Len(pages)}

RefinedPage(pages, all_tables, all_blocks, idx) ==
    RefinePage(idx, GetList(all_blocks, idx), GetList(all_tables, idx),
               is_toc_page(GetList(all_blocks, idx) \o GetList(all_tables, idx)))

\* refine_block_types returns (refined_tables, refined_blocks), both keyed by
\* the page indices of the manifest.
refine_block_types(pages, all_tables, all_blocks) ==
    [tables |-> [idx \in PageIndices(pages) |->
                    RefinedPage(pages, all_tables, all_blocks, idx).tables],
     blocks |-> [idx \in PageIndices(pages) |->
                    RefinedPage(pages, all_tables, all_blocks, idx).blocks]]

-----------------------------------------------------------------------------
(* Document Merger: pipeline/step_50_merge_reading_order.py                  *)

\* A variant of InHeaderFooter that also drops a block that touches a threshold.
InHeaderFooter_Touching(block, page_height) ==
    \/ 10 * block.bbox.y0 <= page_height
    \/ 10 * block.bbox.y1 >= 9 * page_height

\* The test of remove_header_footer: y0 < page_height * 0.1 or
\* y1 > page_height * 0.9.
InHeaderFooter(block, page_height) ==
    \/ 10 * block.bbox.y0 < page_height
    \/ 10 * block.bbox.y1 > 9 * page_height

\* A variant of remove_header_footer that removes the header region only.
remove_header_footer_HeaderOnly(blocks, page_height) ==
    SelectSeq(blocks, LAMBDA b : ~(10 * b.bbox.y0 < page_height))

remove_header_footer(blocks, page_height) ==
    SelectSeq(blocks, LAMBDA b : ~InHeaderFooter(b, page_height))

\* Twice the x-center of an item: (x0 + x1) / 2 * 2.
XCenter2(item) == item.bbox.x0 + item.bbox.x1

MinOf(S) == CHOOSE x \in S : \A y \in S : x <= y
MaxOf(S) == CHOOSE x \in S : \A y \in S : y <= x

\* span_ratio < 0.6, with span_ratio = (max_x - min_x) / page_width, or 0 when
\* page_width <= 0.
SingleColumn(items, page_width) ==
    \/ page_width <= 0
    \/ 5 * (MaxOf({XCenter2(items[i]) : i \in 1..Len(items)})
            - MinOf({XCenter2(items[i]) : i \in 1..Len(items)})) < 6 * page_width

SortByY0(items) == StableSort(items, [i \in 1..Len(items) |-> <<items[i].bbox.y0, 0>>])

\* cluster_columns returns one column, or the left and the right column, each
\* sorted by y0; an item is in the left column when x_center < page_width / 2.
cluster_columns(items, page_width) ==
    IF items = <<>> THEN <<>>
    ELSE IF SingleColumn(items, page_width) THEN <<items>>
    ELSE << SortByY0(SelectSeq(items, LAMBDA it : XCenter2(it) < page_width)),
            SortByY0(SelectSeq(items, LAMBDA it : XCenter2(it) >= page_width)) >>

\* A variant of Interleave that reads the left column to its end before the
\* right column.
Interleave_ColumnMajor(left_column, right_column) == left_column \o right_column

\* The two-column branch of establish_reading_order: the items of both
\* columns sorted by (y0, column index).
Interleave(left_column, right_column) ==
    StableSort(left_column \o right_column,
               [i \in 1..(Len(left_column) + Len(right_column)) |->
                   <<(left_column \o right_column)[i].bbox.y0,
                     IF i <= Len(left_column) THEN 0 ELSE 1>>])

OrderColumns(columns) ==
    IF Len(columns) = 1 THEN SortByY0(columns[1])
    ELSE Interleave(columns[1], columns[2])

\* establish_reading_order takes the page width from its first item's x1.
establish_reading_order(items) ==
    IF items = <<>> THEN <<>>
    ELSE OrderColumns(cluster_columns(items, items[1].bbox.x1))

merge_page_elements(page_index, page_width, page_height, blocks, tables, toc) ==
    MkPage(page_index, page_width, page_height,
           establish_reading_order(
               (IF toc THEN blocks ELSE remove_header_footer(blocks, page_height)) \o tables))

MergedPage(page_data, blocks, tables) ==
    merge_page_elements(page_data.page_index, page_data.width, page_data.height,
                        blocks, tables, is_toc_page(blocks \o tables))

merge_document(pages_data, all_blocks, all_tables) ==
    MkDocument([i \in 1..Len(pages_data) |->
        MergedPage(pages_data[i],
                   GetList(all_blocks, pages_data[i].page_index),
                   GetList(all_tables, pages_data[i].page_index))])

-----------------------------------------------------------------------------
(* SpecMerge: refine_block_types followed by merge_document, as run_pipeline *)
(* calls them, or merge_document called on its own, for a manifest of one or *)
(* two pages of 100 x 100.                                                   *)

\* Most items (blocks and tables together) on the first page.
MaxItems == 3

BoxBody == BBox(10, 20, 40, 30)
\* Starts above 10% of the page height.
BoxHeader == BBox(10, 5, 90, 15)
\* Touches both thresholds: y0 = 10%, y1 = 90%.
BoxEdge == BBox(10, 10, 90, 90)
\* Ends below 90% of the page height, in the right half of the page.
BoxFooter == BBox(60, 85, 90, 95)

\* Three numbered entries with dotted leaders and page numbers.
TxtTocRows ==
    <<"1", ".", "1", " ", "tase", " ", ".", ".", ".", " ", "5", NL,
      "1", ".", "2", " ", "liitetiedot", " ", ".", ".", ".", " ", "7", NL,
      "1", ".", "3", " ", "9">>

RawBlockKinds ==
    { [text |-> <<"Sisallysluettelo">>, bbox |-> BoxBody],
      [text |-> <<"tase">>, bbox |-> BoxHeader],
      [text |-> <<"tase">>, bbox |-> BoxEdge],
      [text |-> <<"7">>, bbox |-> BoxFooter],
      [text |-> TxtTocRows, bbox |-> BoxBody] }

\* A table with dotted leaders, one that is a valid financial table, one of a
\* single column and one whose cells hold no text.
RawTableKinds ==
    { [bbox |-> BoxHeader,
       cells |-> << MkCell(0, 0, <<"tase", " ", ".", ".", ".">>), MkCell(0, 1, <<"5">>),
                    MkCell(1, 0, <<"liitetiedot">>), MkCell(1, 1, <<"7">>) >>],
      [bbox |-> BoxBody,
       cells |-> << MkCell(0, 0, <<"tase">>), MkCell(0, 1, <<"1", "0", "0">>),
                    MkCell(1, 0, <<"Vastaavaa">>), MkCell(1, 1, <<"2", "0", "0">>) >>],
      [bbox |-> BoxFooter,
       cells |-> << MkCell(0, 0, <<"tase">>), MkCell(1, 0, <<"5">>) >>],
      [bbox |-> BoxEdge,
       cells |-> << MkCell(0, 0, <<" ">>), MkCell(0, 1, <<NL>>) >>] }

\* The blocks and tables of page idx, with pairwise distinct ids.
RawBlocks(idx, kinds) ==
    [k \in 1..Len(kinds) |->
        MkBlock(<<"p">> \o IntText(idx) \o <<"_b">> \o IntText(k), kinds[k].text, kinds[k].bbox)]

RawTables(idx, kinds) ==
    [k \in 1..Len(kinds) |->
        MkTable(<<"p">> \o IntText(idx) \o <<"_t">> \o IntText(k), kinds[k].bbox, kinds[k].cells)]

PageData(idx) == [page_index |-> idx, width |-> 100, height |-> 100]

\* A narrow block in the body of the page, at its left edge.
BoxNarrow == BBox(0, 20, 10, 30)
\* A block at the same height, right of it, ending at 40% of the page width.
BoxInner == BBox(20, 20, 40, 30)

\* A narrow block at the left edge that starts lower on the page.
BoxLow == BBox(0, 40, 10, 50)

\* What a second page holds, when there is one.
SecondPages ==
    { [blocks |-> <<>>, tables |-> <<>>],
      [blocks |-> <<[text |-> <<"a">>, bbox |-> BoxInner],
                    [text |-> <<"a">>, bbox |-> BoxNarrow]>>,
       tables |-> <<>>],
      [blocks |-> <<[text |-> <<"a">>, bbox |-> BoxInner],
                    [text |-> <<"a">>, bbox |-> BoxLow]>>,
       tables |-> <<>>],
      [blocks |-> <<[text |-> <<"contents">>, bbox |-> BoxHeader]>>,
       tables |-> <<[bbox |-> BoxBody,
                     cells |-> << MkCell(0, 0, <<"tase">>), MkCell(0, 1, <<"5">>) >>]>>] }

\* The pairs (block kinds, table kinds) of the first page.
FirstPages ==
    {c \in SeqsUpTo(RawBlockKinds, MaxItems) \X SeqsUpTo(RawTableKinds, MaxItems) :
        Len(c[1]) + Len(c[2]) <= MaxItems}

RawInputs ==
    {[pages |-> <<PageData(0)>>,
      all_blocks |-> [idx \in {0} |-> RawBlocks(0, first[1])],
      all_tables |-> [idx \in {0} |-> RawTables(0, first[2])]] : first \in FirstPages}
    \cup
    {[pages |-> <<PageData(0), PageData(1)>>,
      all_blocks |-> [idx \in {0, 1} |->
                         IF idx = 0 THEN RawBlocks(0, first[1])
                         ELSE RawBlocks(1, second.blocks)],
      all_tables |-> [idx \in {0, 1} |->
                         IF idx = 0 THEN RawTables(0, first[2])
                         ELSE RawTables(1, second.tables)]] :
        first \in FirstPages, second \in SecondPages}

\* run_pipeline starts at refine_block_types; step_50 run on its own starts at
\* merge_document with the blocks and tables as extracted.
InitMerge ==
    /\ input \in RawInputs
    /\ \/ pc = "refine" /\ refined = <<>>
       \/ pc = "merge" /\ refined = <<[tables |-> input.all_tables, blocks |-> input.all_blocks]>>
    /\ doc = MkDocument(<<>>)
    /\ behav = NoBehav
    /\ ran = <<>>
    /\ report = <<>>
    /\ files = {}
    /\ runs = 0
    /\ findings = <<>>
    /\ cursor = 0
    /\ page_offset = NoInt
    /\ toc_target_map = <<>>
    /\ hist = <<>>

\* run_all.py line 199: all_tables, all_blocks = refine_block_types(...)
RefineBlockTypes ==
    /\ pc = "refine"
    /\ refined' = <<refine_block_types(input.pages, input.all_tables, input.all_blocks)>>
    /\ hist' = Append(hist, "refine_block_types")
    /\ pc' = "merge"
    /\ UNCHANGED <<doc, input, qaVars, findings, cursor, page_offset, toc_target_map>>

\* run_all.py line 252: document = merge_document(manifest, all_blocks, all_tables)
MergeDocument ==
    /\ pc = "merge"
    /\ doc' = merge_document(input.pages, refined[1].blocks, refined[1].tables)
    /\ hist' = Append(hist, "merge_document")
    /\ pc' = "merged"
    /\ UNCHANGED <<input, qaVars, findings, refined, cursor, page_offset, toc_target_map>>

NextMerge == RefineBlockTypes \/ MergeDocument

SpecMerge == InitMerge /\ [][NextMerge]_vars

\* How many times x occurs in the sequence s.
Count(s, x) == Cardinality({i \in 1..Len(s) : s[i] = x})

\* Whether the sequences a and b hold the same elements the same number of times.
SameItems(a, b) ==
    /\ Len(a) = Len(b)
    /\ \A i \in 1..Len(a) : Count(a, a[i]) = Count(b, a[i])

\* The blocks and tables merge_document was given for the page at position i.
GivenBlocks(i) == GetList(refined[1].blocks, input.pages[i].page_index)
GivenTables(i) == GetList(refined[1].tables, input.pages[i].page_index)

\* C9: the items of a merged page that was not detected as TOC are exactly the
\* given tables and the given blocks with y0 >= 10% and y1 <= 90% of the page
\* height, each once; those of a page detected as TOC are exactly all given
\* blocks and tables, each once.
C9_MergedItems ==
    pc = "merged" =>
        \A i \in 1..Len(input.pages) :
            SameItems(doc.pages[i].items,
                      IF is_toc_page(GivenBlocks(i) \o GivenTables(i))
                      THEN GivenBlocks(i) \o GivenTables(i)
                      ELSE SelectSeq(GivenBlocks(i),
                                     LAMBDA b : /\ 10 * b.bbox.y0 >= input.pages[i].height
                                                /\ 10 * b.bbox.y1 <= 9 * input.pages[i].height)
                           \o GivenTables(i))

\* A merged page not detected as TOC that was given a header block, a block
\* touching both thresholds and a table in the header region: the first is
\* gone, the other two are there.
C9_Witness ==
    /\ pc = "merged"
    /\ ~is_toc_page(GivenBlocks(1) \o GivenTables(1))
    /\ \E b \in 1..Len(GivenBlocks(1)) : GivenBlocks(1)[b].bbox = BoxHeader
    /\ \E k \in 1..Len(doc.pages[1].items) :
          IsBlock(doc.pages[1].items[k]) /\ doc.pages[1].items[k].bbox = BoxEdge
    /\ \E k \in 1..Len(doc.pages[1].items) :
          IsTable(doc.pages[1].items[k]) /\ doc.pages[1].items[k].bbox = BoxFooter
    /\ \A k \in 1..Len(doc.pages[1].items) : doc.pages[1].items[k].bbox # BoxHeader

\* A merged page detected as TOC keeps its header block, its footer block and
\* its table.
C9_WitnessToc ==
    /\ pc = "merged"
    /\ is_toc_page(GivenBlocks(1) \o GivenTables(1))
    /\ \E k \in 1..Len(doc.pages[1].items) :
          IsBlock(doc.pages[1].items[k]) /\ doc.pages[1].items[k].bbox = BoxHeader
    /\ \E k \in 1..Len(doc.pages[1].items) : IsTable(doc.pages[1].items[k])
    /\ Len(doc.pages[1].items) = 3

\* The blocks and tables refine_block_types was given for the page at position i.
RawPageBlocks(i) == GetList(input.all_blocks, input.pages[i].page_index)
RawPageTables(i) == GetList(input.all_tables, input.pages[i].page_index)

\* C10 (as claimed): when merge_document runs on the output of
\* refine_block_types, every TOC-row block made from a table of a page that
\* refine_block_types treated as TOC is among the items of the merged page.
C10_TocRowsSurviveMerge ==
    (pc = "merged" /\ hist = <<"refine_block_types", "merge_document">>) =>
        \A i \in 1..Len(input.pages) :
            is_toc_page(RawPageBlocks(i) \o RawPageTables(i)) =>
                \A k \in 1..Len(RawPageTables(i)) :
                    \A r \in 1..Len(convert_toc_to_text_blocks(RawPageTables(i)[k],
                                                              input.pages[i].page_index)) :
                        Count(doc.pages[i].items,
                              convert_toc_to_text_blocks(RawPageTables(i)[k],
                                                         input.pages[i].page_index)[r]) >= 1

\* The items merge_page_elements hands to establish_reading_order for the
\* page at position i.
KeptItems(i) ==
    (IF is_toc_page(GivenBlocks(i) \o GivenTables(i))
     THEN GivenBlocks(i)
     ELSE remove_header_footer(GivenBlocks(i), input.pages[i].height))
    \o GivenTables(i)

\* C11 (as claimed): the items of every merged page are in the order that the
\* column decision taken with the page's own width gives: one column sorted
\* by y0 when (max x-center - min x-center) / page width < 0.6, else two
\* columns split at half of the page width.
C11_ColumnsByPageWidth ==
    pc = "merged" =>
        \A i \in 1..Len(input.pages) :
            doc.pages[i].items
                = IF KeptItems(i) = <<>> THEN <<>>
                  ELSE OrderColumns(cluster_columns(KeptItems(i), input.pages[i].width))

C14_WitnessToc ==
    /\ pc = "merge" /\ hist = <<"refine_block_types">>
    /\ is_toc_page(RawPageBlocks(1) \o RawPageTables(1))
    /\ Len(RawPageTables(1)) = 2
    /\ GivenTables(1) = <<>>
    /\ Len(GivenBlocks(1)) > Len(RawPageBlocks(1)) + 2

\* C15 (as claimed): after refine_block_types no two blocks of a page have the
\* same block_id (the ids of the input blocks and tables are pairwise
\* distinct).
C15_BlockIdsUnique ==
    (pc = "merge" /\ hist = <<"refine_block_types">>) =>
        \A i \in 1..Len(input.pages) :
            \A a, b \in 1..Len(GivenBlocks(i)) :
                a # b => GivenBlocks(i)[a].block_id # GivenBlocks(i)[b].block_id

-----------------------------------------------------------------------------
(* Semantic Classifier: pipeline/step_55_semantic_classify.py                *)
(* A confidence is the integer number of hundredths: 0.85 is 85.             *)

BALANCE_SHEET_KEYWORDS ==
    << <<"tase">>, <<"balance", " ", "sheet">>,
       <<"statement", " ", "of", " ", "financial", " ", "position">>,
       <<"vastaavaa">>, <<"vastattavaa">>, <<"omavaraisuusaste">>, <<"varat">>, <<"velat">> >>

INCOME_STATEMENT_KEYWORDS ==
    << <<"tuloslaskelma">>, <<"income", " ", "statement">>, <<"profit", " ", "or", " ", "loss">>,
       <<"toimintatuotot">>, <<"toimintakulut">>, <<"verotulot">>, <<"tulos">> >>

CASH_FLOW_KEYWORDS ==
    << <<"rahoituslaskelma">>, <<"cash", " ", "flow">>, <<"rahavirtalaskelma">>,
       <<"cash_assets">> >>

NOTES_KEYWORDS ==
    << <<"liitetiedot">>, <<"notes">>, <<"liite">>, <<"selitykset">>,
       <<"explanatory", " ", "notes">> >>

ACCOUNTING_POLICIES_KEYWORDS ==
    << <<"tilinpaatoksen", " ", "laatimisperiaatteet">>, <<"accounting", " ", "policies">>,
       <<"financial_statement_principles">> >>

TOC_KEYWORDS ==
    << <<"sisallysluettelo">>, <<"contents">>, <<"table", " ", "of", " ", "contents">>,
       <<"sisallys">> >>

COVER_KEYWORDS ==
    << <<"tilinpaatos">>, <<"financial", " ", "statement">>, <<"annual", " ", "report">>,
       <<"vuosikertomus">> >>

MANAGEMENT_REPORT_KEYWORDS ==
    << <<"johtajan", " ", "kertomus">>, <<"management", " ", "report">>,
       <<"hallituksen", " ", "kertomus">> >>

\* any(keyword in text for keyword in keywords), for a list of keywords
AnyKeyword(text, keywords) == \E k \in 1..Len(keywords) : Contains(text, keywords[k])

\* A pair (semantic_section, confidence) as the classifiers return it.
Label(section, confidence) == [section |-> section, confidence |-> confidence]

\* list[:n]
Take(list, n) == SubSeq(list, 1, IF Len(list) < n THEN Len(list) ELSE n)

\* The header text of a table: its first five cells of row 0, joined.
HeaderText(table) ==
    Join(Take([i \in 1..Len(RowCells(table, 0)) |-> RowCells(table, 0)[i].text_raw], 5))

\* text_samples of classify_page_section, from the first ten items.
SampleOf(item) ==
    IF IsBlock(item) THEN <<item.text>>
    ELSE IF item.cells # <<>> THEN <<HeaderText(item)>>
    ELSE <<>>

TextSamples(page) ==
    Flatten([i \in 1..Len(Take(page.items, 10)) |-> SampleOf(page.items[i])])

\* Lines 154-160: a TOC keyword together with a list_item Block or a "..."
\* in some text sample.
KeywordToc(page, text_samples) ==
    /\ AnyKeyword(Lower(Join(text_samples)), TOC_KEYWORDS)
    /\ \/ \E i \in 1..Len(page.items) :
             IsBlock(page.items[i]) /\ page.items[i].semantic_type = "list_item"
       \/ \E i \in 1..Len(text_samples) : Occurs(<<".", ".", ".">>, text_samples[i])

\* A variant of AppendixHeuristic that never answers 'appendix'.
AppendixHeuristic_Never(page) == Label(NoValue, 0)

\* Lines 183-186: page_index > len(page.items) * 0.8.
AppendixHeuristic(page) ==
    IF 10 * page.page_index > 8 * Len(page.items) THEN Label("appendix", 30)
    ELSE Label(NoValue, 0)

\* Lines 146-186, given the lower-cased combined text.
SectionByKeywords(page, text_samples, combined_text) ==
    IF page.page_index = 0 /\ AnyKeyword(combined_text, COVER_KEYWORDS) THEN Label("cover", 90)
    ELSE IF KeywordToc(page, text_samples) THEN Label("toc", 85)
    ELSE IF AnyKeyword(combined_text, MANAGEMENT_REPORT_KEYWORDS)
         THEN Label("management_report", 80)
    ELSE IF AnyKeyword(combined_text, NOTES_KEYWORDS) THEN Label("notes", 80)
    ELSE IF AnyKeyword(combined_text, << <<"tase">>, <<"balance", " ", "sheet">> >>)
         THEN Label("balance_sheet", 70)
    ELSE IF AnyKeyword(combined_text, << <<"tuloslaskelma">>, <<"income", " ", "statement">> >>)
         THEN Label("income_statement", 70)
    ELSE IF AnyKeyword(combined_text, CASH_FLOW_KEYWORDS) THEN Label("cash_flow_statement", 70)
    ELSE IF AnyKeyword(combined_text, ACCOUNTING_POLICIES_KEYWORDS)
         THEN Label("accounting_policies", 70)
    ELSE AppendixHeuristic(page)

classify_page_section(page) ==
    IF is_toc_page(page.items) THEN Label("toc", 90)
    ELSE SectionByKeywords(page, TextSamples(page), Lower(Join(TextSamples(page))))

\* The digits at the end of t, as many as there are.
RECURSIVE TrailingDigits(_)
TrailingDigits(t) ==
    IF t # <<>> /\ t[Len(t)] \in Digits
    THEN Append(TrailingDigits(SubSeq(t, 1, Len(t) - 1)), t[Len(t)])
    ELSE <<>>

\* The text before the digits at the end of t.
BeforeDigits(t) == SubSeq(t, 1, Len(t) - Len(TrailingDigits(t)))

EndsWithDots(t) == Len(t) >= 2 /\ t[Len(t)] = "." /\ t[Len(t) - 1] = "."

\* group(1) of the k-th pattern of parse_toc_target_page searched in the
\* stripped text t, as digits (<<>>: no match):
\*   1: \.{2,}\s*(\d{1,3})\s*$    2: \s+(\d{1,3})\s*$    3: (\d{1,3})\s*$
PatternGroup(k, t) ==
    CASE k = 1 -> IF /\ Len(TrailingDigits(t)) \in 1..3
                     /\ EndsWithDots(RStrip(BeforeDigits(t)))
                  THEN TrailingDigits(t) ELSE <<>>
      [] k = 2 -> IF /\ Len(TrailingDigits(t)) \in 1..3
                     /\ BeforeDigits(t) # <<>>
                     /\ IsWhitespace(BeforeDigits(t)[Len(BeforeDigits(t))])
                  THEN TrailingDigits(t) ELSE <<>>
      [] k = 3 -> IF Len(TrailingDigits(t)) <= 3 THEN TrailingDigits(t)
                  ELSE SubSeq(TrailingDigits(t), Len(TrailingDigits(t)) - 2,
                              Len(TrailingDigits(t)))

\* Whether the k-th pattern yields a page number in 1..500.
PatternAccepts(k, t) ==
    PatternGroup(k, t) # <<>> /\ DigitsVal(PatternGroup(k, t)) \in 1..500

\* The loop over the three patterns, on the stripped text.
ParseStripped(t) ==
    IF PatternAccepts(1, t) THEN SomeInt(DigitsVal(PatternGroup(1, t)))
    ELSE IF PatternAccepts(2, t) THEN SomeInt(DigitsVal(PatternGroup(2, t)))
    ELSE IF PatternAccepts(3, t) THEN SomeInt(DigitsVal(PatternGroup(3, t)))
    ELSE NoInt

parse_toc_target_page(text) ==
    IF Strip(text) = <<>> THEN NoInt ELSE ParseStripped(Strip(text))

\* pages[3:15] as positions of the list.
ScannedPositions(d) == {p \in 1..Len(d.pages) : 4 <= p /\ p <= 15}

\* item.bbox.y0 > page_height * 0.85 or item.bbox.y1 > page_height * 0.85
InFooterArea(item, page_height) ==
    \/ 100 * item.bbox.y0 > 85 * page_height
    \/ 100 * item.bbox.y1 > 85 * page_height

\* item.bbox.y0 < page_height * 0.10
InHeaderArea(item, page_height) == 10 * item.bbox.y0 < page_height

\* re.match(r"^(\d{1,3})$", text) with a number in 1..200: the logical pages
\* found (none or one).
StandaloneNumber(text) ==
    IF /\ IsAllDigits(text) /\ Len(text) <= 3
       /\ DigitsVal(text) \in 1..200
    THEN <<DigitsVal(text)>> ELSE <<>>

\* Where (?:sivu|page)\s*(\d{1,3}) can match in the lower-cased text t: at a
\* word "sivu" or "page" followed, after any whitespace, by a digit.
SivuStarts(t) ==
    {i \in 1..Len(t) :
        /\ t[i] \in {"sivu", "page"}
        /\ LStrip(SubSeq(t, i + 1, Len(t))) # <<>>
        /\ Head(LStrip(SubSeq(t, i + 1, Len(t)))) \in Digits}

\* The first three digits, at most, after the word at position i.
SivuDigits(t, i) == Take(DigitRun(LStrip(SubSeq(t, i + 1, Len(t)))), 3)

\* re.search(r"(?:sivu|page)\s*(\d{1,3})", text.lower()) with a number in
\* 1..200.
SivuNumber(text) ==
    IF /\ SivuStarts(Lower(text)) # {}
       /\ DigitsVal(SivuDigits(Lower(text), MinOf(SivuStarts(Lower(text))))) \in 1..200
    THEN <<DigitsVal(SivuDigits(Lower(text), MinOf(SivuStarts(Lower(text)))))>>
    ELSE <<>>

\* The logical page numbers one item contributes in the footer scan (lines
\* 253-271) and in the header scan (lines 281-289).
FooterNumbers(item, page_height) ==
    IF IsBlock(item) /\ InFooterArea(item, page_height)
    THEN StandaloneNumber(Strip(item.text)) \o SivuNumber(Strip(item.text))
    ELSE <<>>

HeaderNumbers(item, page_height) ==
    IF IsBlock(item) /\ InHeaderArea(item, page_height)
    THEN StandaloneNumber(Strip(item.text))
    ELSE <<>>

\* pdf_idx - logical for every candidate of one page.
OffsetsOf(page, numbers) == [k \in 1..Len(numbers) |-> page.page_index - numbers[k]]

FooterOffsets(page) ==
    OffsetsOf(page, Flatten([i \in 1..Len(page.items) |->
                                FooterNumbers(page.items[i], page.height)]))

HeaderOffsets(page) ==
    OffsetsOf(page, Flatten([i \in 1..Len(page.items) |->
                                HeaderNumbers(page.items[i], page.height)]))

\* The offsets of all candidates: the footer scan of pages[3:15], then the
\* header scan of the same pages.
CandidateOffsets(d) ==
    Flatten([p \in 1..Len(d.pages) |->
                IF p \in ScannedPositions(d) THEN FooterOffsets(d.pages[p]) ELSE <<>>])
    \o Flatten([p \in 1..Len(d.pages) |->
                IF p \in ScannedPositions(d) THEN HeaderOffsets(d.pages[p]) ELSE <<>>])

\* sorted(offsets)
SortedOffsets(offsets) == StableSort(offsets, [k \in 1..Len(offsets) |-> <<offsets[k], 0>>])

\* A variant of MedianOffset that takes the lower of the two middle offsets.
MedianOffset_Lower(offsets) == SortedOffsets(offsets)[(Len(offsets) + 1) \div 2]

\* sorted(offsets)[len(offsets) // 2]
MedianOffset(offsets) == SortedOffsets(offsets)[(Len(offsets) \div 2) + 1]

\* toc_pages = [p for p in document.pages if p.semantic_section == "toc"]
TocPositions(d) == {p \in 1..Len(d.pages) : d.pages[p].semantic_section = "toc"}

\* Lines 306-316: the estimate from the first TOC page, or the default.
OffsetWithoutCandidates(d) ==
    IF TocPositions(d) # {} THEN d.pages[MinOf(TocPositions(d))].page_index - 1
    ELSE 2

calculate_page_number_offset(d) ==
    IF CandidateOffsets(d) # <<>> THEN MedianOffset(CandidateOffsets(d))
    ELSE OffsetWithoutCandidates(d)

\* keyword_mapping of extract_financial_types_from_toc, in dict order.
keyword_mapping ==
    << [keyword |-> <<"tuloslaskelma">>, financial_type |-> "income_statement"],
       [keyword |-> <<"income", " ", "statement">>, financial_type |-> "income_statement"],
       [keyword |-> <<"rahoituslaskelma">>, financial_type |-> "cash_flow_statement"],
       [keyword |-> <<"cash", " ", "flow">>, financial_type |-> "cash_flow_statement"],
       [keyword |-> <<"tase">>, financial_type |-> "balance_sheet"],
       [keyword |-> <<"balance", " ", "sheet">>, financial_type |-> "balance_sheet"],
       [keyword |-> <<"liitetiedot">>, financial_type |-> "notes"],
       [keyword |-> <<"notes">>, financial_type |-> "notes"] >>

\* Whether the keyword kw starts at position j of the lower-cased text t.
KeywordAt(t, j, kw) ==
    /\ j + Len(kw) - 1 <= Len(t)
    /\ \A k \in 1..(Len(kw) - 1) : t[j + k - 1] = kw[k]
    /\ \/ t[j + Len(kw) - 1] = kw[Len(kw)]
       \/ kw[Len(kw)] \in Prefixes(t[j + Len(kw) - 1])

\* Where the match of (\d+\.\d+(?:\.\d+)?\s*keyword[^\n]*) that starts at
\* position i of t ends (0: no match there): at the end of the keyword's line.
EntryEndFrom(t, i, kw, j) ==
    IF KeywordAt(Lower(t), j, kw)
    THEN IF \E e \in j..Len(t) : t[e] = NL
         THEN MinOf({e \in j..Len(t) : t[e] = NL}) - 1
         ELSE Len(t)
    ELSE 0

EntryEndAfter(t, i, kw, n) ==
    IF n = 0 THEN 0
    ELSE EntryEndFrom(t, i, kw, i + n + (Len(SubSeq(t, i + n, Len(t)))
                                         - Len(LStrip(SubSeq(t, i + n, Len(t))))))

EntryEnd(t, i, kw) == EntryEndAfter(t, i, kw, SectionNumLen(SubSeq(t, i, Len(t))))

\* pattern.findall(item_text): the matches from position i on, left to right.
RECURSIVE FindEntries(_, _, _)
FindEntries(t, i, kw) ==
    IF i > Len(t) THEN <<>>
    ELSE IF EntryEnd(t, i, kw) > 0
         THEN <<SubSeq(t, i, EntryEnd(t, i, kw))>> \o FindEntries(t, EntryEnd(t, i, kw) + 1, kw)
         ELSE FindEntries(t, i + 1, kw)

\* The assignments financial_types[key] = (financial_type, target_page) that
\* one keyword makes for one item text (lines 359-371).
KeyAssignments(keys, financial_type, target_page) ==
    [k \in 1..Len(keys) |->
        [key |-> keys[k], financial_type |-> financial_type, target_page |-> target_page]]

KeywordAssignments(item_text, mapping) ==
    IF ~Contains(Lower(item_text), mapping.keyword) THEN <<>>
    ELSE KeyAssignments(IF FindEntries(item_text, 1, mapping.keyword) # <<>>
                        THEN FindEntries(item_text, 1, mapping.keyword)
                        ELSE <<mapping.keyword>>,
                        mapping.financial_type, parse_toc_target_page(item_text))

ItemAssignments(item_text) ==
    Flatten([m \in 1..Len(keyword_mapping) |-> KeywordAssignments(item_text, keyword_mapping[m])])

\* A Python dict built by assignments: a key keeps the place of its first
\* assignment and the value of its last one.
DictOf(assignments) ==
    LET firsts == SelectSeq([k \in 1..Len(assignments) |-> k],
                            LAMBDA k : \A j \in 1..(k - 1) : assignments[j].key # assignments[k].key)
    IN  [n \in 1..Len(firsts) |->
            assignments[MaxOf({k \in 1..Len(assignments) :
                                  assignments[k].key = assignments[firsts[n]].key})]]

\* The dict extract_financial_types_from_toc returns, as the list of its
\* entries [key, financial_type, target_page] in dict order.
extract_financial_types_from_toc(page) ==
    DictOf(Flatten([i \in 1..Len(Flatten([k \in 1..Len(page.items) |-> ItemTexts(page.items[k])])) |->
        ItemAssignments(Flatten([k \in 1..Len(page.items) |-> ItemTexts(page.items[k])])[i])]))

\* financial_type_to_section.get(fin_type, "notes")
financial_type_to_section(fin_type) ==
    CASE fin_type = "income_statement" -> "income_statement"
      [] fin_type = "balance_sheet" -> "balance_sheet"
      [] fin_type = "cash_flow_statement" -> "cash_flow_statement"
      [] fin_type = "notes" -> "notes"
      [] fin_type = "accounting_policies" -> "accounting_policies"
      [] fin_type = "management_report" -> "management_report"
      [] OTHER -> "notes"

\* The assignments target_map[pdf_page_idx] = (section, fin_type) that one
\* TOC page makes (lines 441-450).
TargetOf(entry, offset) ==
    IF entry.target_page.is_none \/ entry.target_page.value + offset < 0 THEN <<>>
    ELSE <<[key |-> entry.target_page.value + offset,
            section |-> financial_type_to_section(entry.financial_type),
            financial_type |-> entry.financial_type]>>

EntryTargets(entries, offset) ==
    Flatten([k \in 1..Len(entries) |-> TargetOf(entries[k], offset)])

PageTargets(page, offset) ==
    IF page.semantic_section # "toc" THEN <<>>
    ELSE EntryTargets(extract_financial_types_from_toc(page), offset)

AllTargets(d, offset) == Flatten([p \in 1..Len(d.pages) |-> PageTargets(d.pages[p], offset)])

\* The dict as a function: every key with the value assigned to it last.
LastAssigned(assignments) ==
    [idx \in {assignments[k].key : k \in 1..Len(assignments)} |->
        assignments[MaxOf({k \in 1..Len(assignments) : assignments[k].key = idx})]]

build_toc_target_map(d, offset) == LastAssigned(AllTargets(d, offset))

\* str.upper() of one symbol: the words of the vocabulary that the hard-rule
\* indicators are made of; no other word of the vocabulary is part of one.
UpperSym(w) ==
    CASE w \in {"vastaavaa", "Vastaavaa"} -> "VASTAAVAA"
      [] w \in {"vastattavaa", "Vastattavaa"} -> "VASTATTAVAA"
      [] w \in {"toimintatuotot", "Toimintatuotot"} -> "TOIMINTATUOTOT"
      [] w \in {"toimintakulut", "Toimintakulut"} -> "TOIMINTAKULUT"
      [] OTHER -> w

Upper(t) == [i \in 1..Len(t) |-> UpperSym(t[i])]

\* The number of characters a symbol stands for: the letters of a word, one
\* for a character.  "Lorem" stands for a run of 600 letters.
CharLen(w) ==
    CASE w = "Lorem" -> 600
      [] w \in {"sisallysluettelo", "Sisallysluettelo"} -> 16
      [] w \in {"toimintatuotot", "Toimintatuotot"} -> 14
      [] w \in {"tuloslaskelma", "toimintakulut", "Toimintakulut"} -> 13
      [] w \in {"liitetiedot", "tilinpaatos", "vastattavaa", "Vastattavaa", "VASTATTAVAA"} -> 11
      [] w \in {"vastaavaa", "Vastaavaa", "VASTAAVAA"} -> 9
      [] w \in {"sisallys", "contents", "yhteensa"} -> 8
      [] w = "liite" -> 5
      [] w \in {"tase", "Tase", "sivu", "Sivu"} -> 4
      [] OTHER -> 1

\* len(text)
TextLen(t) == SumSeq([i \in 1..Len(t) |-> CharLen(t[i])])

balance_sheet_indicators ==
    << <<"VASTAAVAA">>, <<"VASTATTAVAA">>, <<"PYSYVAT", " ", "VASTAAVAT">>,
       <<"VAIHTUVAT", " ", "VASTAAVAT">>, <<"OMA", " ", "PAAOMA">>, <<"VIERAS", " ", "PAAOMA">> >>

income_indicators ==
    << <<"TOIMINTATUOTOT">>, <<"TOIMINTAKULUT">>, <<"VUOSIKATE">>,
       <<"TILIKAUDEN", " ", "TULOS">>, <<"SATUNNAISET", " ", "TUOTOT">>,
       <<"SATUNNAISET", " ", "KULUT">> >>

cash_flow_indicators ==
    << <<"TOIMINNAN", " ", "RAHAVIRTA">>, <<"INVESTOINTIEN", " ", "RAHAVIRTA">>,
       <<"RAHOITUKSEN", " ", "RAHAVIRTA">>, <<"RAHAVAROJEN", " ", "MUUTOS">> >>

\* sum(1 for ind in indicators if ind in text_upper)
IndicatorMatches(text_upper, indicators) ==
    Cardinality({k \in 1..Len(indicators) : Occurs(indicators[k], text_upper)})

\* Lines 477-523, given all_text.
HardRules(all_text) ==
    IF IndicatorMatches(Upper(all_text), balance_sheet_indicators) >= 2
    THEN Label("balance_sheet", 90)
    ELSE IF IndicatorMatches(Upper(all_text), income_indicators) >= 2
    THEN Label("income_statement", 90)
    ELSE IF IndicatorMatches(Upper(all_text), cash_flow_indicators) >= 2
    THEN Label("cash_flow_statement", 90)
    ELSE IF /\ \/ Contains(Lower(all_text), <<"liitetiedot">>)
               \/ Occurs(<<"liite", " ">>, Lower(all_text))
            /\ TextLen(all_text) > 500
    THEN Label("notes", 70)
    ELSE Label(NoValue, 0)

classify_page_with_hard_rules(page) == HardRules(AllText(page.items))

\* Pass 1 of classify_document for one page (lines 545-556).
\* A variant of Pass1Label without the defaults of lines 550-556.
Pass1Label_NoDefault(page) == classify_page_section(page)

Pass1Label(page) ==
    IF classify_page_section(page).section # NoValue THEN classify_page_section(page)
    ELSE IF page.page_index = 0 THEN Label("cover", 50)
    ELSE Label("appendix", 10)

\* A variant of RetryLabel that takes the second answer whatever it is.
RetryLabel_Unconditional(page, again) == [via |-> "retry", label |-> again]

\* The low-confidence retry of pass 2 (lines 591-596): the label the page leaves with.
RetryLabel(page, again) ==
    IF again.section # NoValue /\ again.confidence > page.semantic_confidence.value
    THEN [via |-> "retry", label |-> again]
    ELSE [via |-> "kept", label |-> Label(page.semantic_section, page.semantic_confidence.value)]

\* Lines 583-596, given what the hard rules answer.
AfterHardRules(page, hard) ==
    IF hard.section # NoValue /\ hard.confidence > 50
    THEN [via |-> "hard_rules", label |-> hard]
    ELSE IF page.semantic_confidence.value < 30
    THEN RetryLabel(page, classify_page_section(page))
    ELSE [via |-> "kept", label |-> Label(page.semantic_section, page.semantic_confidence.value)]

\* A variant of TocTargetLabel that lets an answer of the hard rules stand.
TocTargetLabel_UnlessHardRules(page, target_map) ==
    IF classify_page_with_hard_rules(page).section # NoValue
       /\ classify_page_with_hard_rules(page).confidence > 50
    THEN [via |-> "hard_rules", label |-> classify_page_with_hard_rules(page)]
    ELSE [via |-> "toc_target", label |-> Label(target_map[page.page_index].section, 85)]

\* Lines 575-580: the page takes the section of its TOC target, confidence 0.85.
TocTargetLabel(page, target_map) ==
    [via |-> "toc_target", label |-> Label(target_map[page.page_index].section, 85)]

\* A variant of Pass2Label that looks at the TOC target map before it skips
\* the cover and TOC pages.
Pass2Label_MapFirst(page, target_map) ==
    IF page.page_index \in DOMAIN target_map
    THEN TocTargetLabel(page, target_map)
    ELSE IF page.semantic_section \in {"toc", "cover"}
    THEN [via |-> "skipped", label |-> Label(page.semantic_section, page.semantic_confidence.value)]
    ELSE AfterHardRules(page, classify_page_with_hard_rules(page))

\* Pass 2 of classify_document for one page (lines 570-596): the branch taken
\* and the label the page leaves with.
Pass2Label(page, target_map) ==
    IF page.semantic_section \in {"toc", "cover"}
    THEN [via |-> "skipped", label |-> Label(page.semantic_section, page.semantic_confidence.value)]
    ELSE IF page.page_index \in DOMAIN target_map
    THEN TocTargetLabel(page, target_map)
    ELSE AfterHardRules(page, classify_page_with_hard_rules(page))

WithLabel(page, label) ==
    [page EXCEPT !.semantic_section = label.section,
                 !.semantic_confidence = SomeInt(label.confidence)]

\* The first keyword of the list that occurs in the text (0: none does).
FirstKeyword(text_lower, keywords) ==
    IF AnyKeyword(text_lower, keywords)
    THEN MinOf({k \in 1..Len(keywords) : Contains(text_lower, keywords[k])})
    ELSE 0

\* (financial_type, evidence) as the classifiers of elements return it.
Typed(financial_type, evidence) == [financial_type |-> financial_type, evidence |-> evidence]

KeywordTyped(financial_type, keywords, k) ==
    Typed(financial_type, << <<"keyword:">> \o keywords[k] >>)

\* classify_financial_type, given the lower-cased text.
FinancialTypeOf(text_lower) ==
    IF FirstKeyword(text_lower, BALANCE_SHEET_KEYWORDS) > 0
    THEN KeywordTyped("balance_sheet", BALANCE_SHEET_KEYWORDS,
                      FirstKeyword(text_lower, BALANCE_SHEET_KEYWORDS))
    ELSE IF FirstKeyword(text_lower, INCOME_STATEMENT_KEYWORDS) > 0
    THEN KeywordTyped("income_statement", INCOME_STATEMENT_KEYWORDS,
                      FirstKeyword(text_lower, INCOME_STATEMENT_KEYWORDS))
    ELSE IF FirstKeyword(text_lower, CASH_FLOW_KEYWORDS) > 0
    THEN KeywordTyped("cash_flow_statement", CASH_FLOW_KEYWORDS,
                      FirstKeyword(text_lower, CASH_FLOW_KEYWORDS))
    ELSE IF FirstKeyword(text_lower, NOTES_KEYWORDS) > 0
    THEN KeywordTyped("notes", NOTES_KEYWORDS, FirstKeyword(text_lower, NOTES_KEYWORDS))
    ELSE IF FirstKeyword(text_lower, ACCOUNTING_POLICIES_KEYWORDS) > 0
    THEN KeywordTyped("accounting_policies", ACCOUNTING_POLICIES_KEYWORDS,
                      FirstKeyword(text_lower, ACCOUNTING_POLICIES_KEYWORDS))
    ELSE Typed(NoValue, <<>>)

classify_financial_type(text) == FinancialTypeOf(Lower(text))

\* classify_table_structure, given the lower-cased texts of the first ten
\* cells, joined.
TableStructureOf(first_cells_text) ==
    IF AnyKeyword(first_cells_text,
                  << <<"vastaavaa">>, <<"vastattavaa">>, <<"varat">>, <<"velat">> >>)
    THEN Typed("balance_sheet", << <<"structure:balance_sheet_columns">> >>)
    ELSE IF /\ \/ Occurs(<<"2", "0", "2", "4">>, first_cells_text)
               \/ Occurs(<<"2", "0", "2", "3">>, first_cells_text)
            /\ AnyKeyword(first_cells_text, << <<"tuotot">>, <<"kulut">>, <<"tulos">> >>)
    THEN Typed("income_statement", << <<"structure:income_statement_columns">> >>)
    ELSE Typed(NoValue, <<>>)

classify_table_structure(table) ==
    IF table.cells = <<>> THEN Typed(NoValue, <<>>)
    ELSE TableStructureOf(Join([i \in 1..Len(Take(table.cells, 10)) |->
                                   Lower(table.cells[i].text_raw)]))

\* len(text.split()): the runs of characters that are not whitespace.
WordCount(t) ==
    Cardinality({i \in 1..Len(t) :
        ~IsWhitespace(t[i]) /\ (i = 1 \/ IsWhitespace(t[i - 1]))})

\* re.match(r"^[\d*-]\s+", text) is not None, the bullet characters included.
StartsLikeListItem(t) ==
    Len(t) >= 2 /\ t[1] \in Digits \cup {"-", "*", "BULLET"} /\ IsWhitespace(t[2])

\* classify_element_semantic_type for a Block without a semantic_type, given
\* text.lower().strip(); a lower-cased text is never isupper().
BlockSemanticType(item, text_lower, is_first_item) ==
    IF is_first_item /\ TextLen(text_lower) < 100 /\ WordCount(text_lower) <= 5 THEN "title"
    ELSE IF /\ TextLen(text_lower) < 50 /\ item.font_bold
            /\ AnyKeyword(text_lower, << <<"tase">>, <<"tuloslaskelma">>, <<"liite">>, <<"notes">> >>)
    THEN "section_header"
    ELSE IF StartsLikeListItem(text_lower) THEN "list_item"
    ELSE "text"

classify_element_semantic_type(item, is_first_item) ==
    IF IsTable(item) THEN "table"
    ELSE IF item.semantic_type # NoValue THEN item.semantic_type
    ELSE BlockSemanticType(item, Strip(Lower(item.text)), is_first_item)

\* Lines 626-632: the first entry of the TOC page's dict whose key occurs in
\* the item's text (0: none, or the page is no TOC page).
MatchingEntry(item, entries) ==
    IF \E k \in 1..Len(entries) : Contains(Lower(item.text), Lower(entries[k].key))
    THEN MinOf({k \in 1..Len(entries) : Contains(Lower(item.text), Lower(entries[k].key))})
    ELSE 0

\* Lines 638-650 for a Block: the financial type found and the TOC target.
WithFinancialType(item, typed) ==
    IF typed.financial_type = NoValue THEN item
    ELSE [item EXCEPT !.financial_type = typed.financial_type,
                      !.classification_evidence = typed.evidence]

WithTarget(item, target_page, offset) ==
    IF target_page.is_none THEN item
    ELSE [item EXCEPT !.toc_target_page = target_page,
                      !.pdf_target_page = IF target_page.value + offset >= 0
                                          THEN SomeInt(target_page.value + offset) ELSE @]

ClassifiedBlockBy(item, entries, k, offset) ==
    IF k > 0
    THEN WithTarget(WithFinancialType(item, Typed(entries[k].financial_type,
                                                  << <<"toc_entry:">> \o entries[k].key >>)),
                    entries[k].target_page, offset)
    ELSE WithFinancialType(item, classify_financial_type(item.text))

ClassifiedBlock(item, is_first_item, entries, offset) ==
    ClassifiedBlockBy([item EXCEPT !.semantic_type = classify_element_semantic_type(item, is_first_item)],
                      entries, MatchingEntry(item, entries), offset)

\* Lines 655-673 for a Table.
ClassifiedTable(item) ==
    IF classify_table_structure(item).financial_type # NoValue
    THEN WithFinancialType([item EXCEPT !.semantic_type = "table"], classify_table_structure(item))
    ELSE IF item.cells # <<>>
    THEN WithFinancialType([item EXCEPT !.semantic_type = "table"],
                           classify_financial_type(HeaderText(item)))
    ELSE [item EXCEPT !.semantic_type = "table"]

\* The third loop of classify_document for one page (lines 600-673).
ClassifiedItems(page, entries, offset) ==
    [i \in 1..Len(page.items) |->
        IF IsTable(page.items[i]) THEN ClassifiedTable(page.items[i])
        ELSE ClassifiedBlock(page.items[i], i = 1, entries, offset)]

ClassifiedElements(page, offset) ==
    [page EXCEPT !.items =
        ClassifiedItems(page,
                        IF page.semantic_section = "toc"
                        THEN extract_financial_types_from_toc(page) ELSE <<>>,
                        offset)]

-----------------------------------------------------------------------------
(* SpecClassify: classify_document on a Document of MaxPages pages of        *)
(* 100 x 100, loop turn by loop turn.                                        *)

MaxPages == 5

\* Reaches from the header area into the footer area.
BoxTall == BBox(10, 5, 90, 95)

Blk(text, bbox) == [text |-> text, bbox |-> bbox]

KindCover == [blocks |-> <<Blk(<<"tilinpaatos">>, BoxBody)>>, tables |-> <<>>]

\* Six blocks without any keyword.
KindLong == [blocks |-> [k \in 1..6 |-> Blk(<<"a">>, BoxBody)], tables |-> <<>>]

\* A page of contents: "tase ... 4" and "1.2 tuloslaskelma ... 5".
KindToc ==
    [blocks |-> << Blk(<<"Sisallysluettelo">>, BoxBody),
                   Blk(<<"tase", " ", ".", ".", ".", " ", "4">>, BoxBody),
                   Blk(<<"1", ".", "2", " ", "tuloslaskelma", " ", ".", ".", ".", " ", "5">>,
                       BoxBody) >>,
     tables |-> <<>>]

\* A page of contents that only the keyword rule of classify_page_section
\* finds, and that names both sides of the balance sheet.
KindTocByKeyword ==
    [blocks |-> << Blk(<<"sisallys">>, BoxBody),
                   Blk(<<"liitetiedot", " ", ".", ".", ".", " ", "2">>, BoxBody),
                   Blk(<<"VASTAAVAA", " ", "VASTATTAVAA">>, BoxBody) >>,
     tables |-> <<>>]

\* A balance sheet table.
KindBalanceTable ==
    [blocks |-> <<>>,
     tables |-> <<[bbox |-> BoxBody,
                   cells |-> << MkCell(0, 0, <<"VASTAAVAA">>), MkCell(0, 1, <<"1", "0">>),
                                MkCell(1, 0, <<"VASTATTAVAA">>), MkCell(1, 1, <<"1", "0">>) >>]>>]

\* A balance sheet page with the printed page number 4 in the footer area.
KindBalanceFooter ==
    [blocks |-> << Blk(<<"VASTAAVAA", " ", "VASTATTAVAA">>, BoxBody),
                   Blk(<<"4">>, BoxFooter) >>,
     tables |-> <<>>]

\* An income statement page with "Sivu 7" in the footer area.
KindIncomeFooter ==
    [blocks |-> << Blk(<<"tuloslaskelma">>, BoxBody),
                   Blk(<<"Sivu", " ", "7">>, BoxFooter) >>,
     tables |-> <<>>]

\* A page whose only block, "2", lies in the header and in the footer area.
KindTall == [blocks |-> <<Blk(<<"2">>, BoxTall)>>, tables |-> <<>>]

KindEmpty == [blocks |-> <<>>, tables |-> <<>>]

\* What the page at a position of the list may be.
PageKindsAt(pos) ==
    CASE pos = 1 -> {KindCover, KindLong}
      [] pos = 2 -> {KindToc, KindTocByKeyword, KindLong}
      [] pos = 3 -> {KindToc, KindBalanceTable, KindLong}
      [] pos = 4 -> {KindBalanceFooter, KindIncomeFooter, KindLong, KindEmpty}
      [] OTHER -> {KindBalanceFooter, KindIncomeFooter, KindLong, KindEmpty, KindTall}

PageOfKind(idx, kind) ==
    MkPage(idx, 100, 100, RawBlocks(idx, kind.blocks) \o RawTables(idx, kind.tables))

ClassifierDocs ==
    {MkDocument([pos \in 1..MaxPages |-> PageOfKind(pos - 1, kinds[pos])]) :
        kinds \in {f \in [1..MaxPages -> UNION {PageKindsAt(pos) : pos \in 1..MaxPages}] :
                      \A pos \in 1..MaxPages : f[pos] \in PageKindsAt(pos)}}

\* One step of classify_document, for the record of its steps.
Step(op, page, via, label) == [op |-> op, page |-> page, via |-> via, label |-> label]

NoLabel == Label(NoValue, 0)

InitClassify ==
    /\ doc \in ClassifierDocs
    /\ input = doc
    /\ pc = "pass1"
    /\ cursor = 1
    /\ page_offset = NoInt
    /\ toc_target_map = <<>>
    /\ hist = <<>>
    /\ refined = <<>>
    /\ behav = NoBehav
    /\ ran = <<>>
    /\ report = <<>>
    /\ files = {}
    /\ runs = 0
    /\ findings = <<>>

\* A variant of Pass1Page that leaves the first loop after its first turn.
Pass1Page_LeavesEarly ==
    /\ pc = "pass1"
    /\ doc' = [doc EXCEPT !.pages[cursor] = WithLabel(@, Pass1Label(@))]
    /\ hist' = Append(hist, Step("pass1", cursor, "", Pass1Label(doc.pages[cursor])))
    /\ cursor' = 0
    /\ pc' = "offset"
    /\ UNCHANGED <<input, qaVars, findings, refined, page_offset, toc_target_map>>

\* One turn of the first loop (lines 544-556).
Pass1Page ==
    /\ pc = "pass1"
    /\ doc' = [doc EXCEPT !.pages[cursor] = WithLabel(@, Pass1Label(@))]
    /\ hist' = Append(hist, Step("pass1", cursor, "", Pass1Label(doc.pages[cursor])))
    /\ IF cursor < Len(doc.pages)
       THEN cursor' = cursor + 1 /\ pc' = pc
       ELSE cursor' = 0 /\ pc' = "offset"
    /\ UNCHANGED <<input, qaVars, findings, refined, page_offset, toc_target_map>>

\* Lines 559-560: the offset is computed and stored in the Document.
ComputeOffset ==
    /\ pc = "offset"
    /\ page_offset' = SomeInt(calculate_page_number_offset(doc))
    /\ doc' = [doc EXCEPT !.page_number_offset = SomeInt(calculate_page_number_offset(doc))]
    /\ hist' = Append(hist, Step("offset", 0, "", NoLabel))
    /\ pc' = "toc_map"
    /\ UNCHANGED <<input, qaVars, findings, refined, cursor, toc_target_map>>

\* Line 564: toc_target_map = build_toc_target_map(document, page_offset)
BuildTocTargetMap ==
    /\ pc = "toc_map"
    /\ toc_target_map' = build_toc_target_map(doc, page_offset.value)
    /\ hist' = Append(hist, Step("toc_map", 0, "", NoLabel))
    /\ cursor' = 1
    /\ pc' = "pass2"
    /\ UNCHANGED <<doc, input, qaVars, findings, refined, page_offset>>

\* One turn of the second loop (lines 569-596).
Pass2Page ==
    /\ pc = "pass2"
    /\ doc' = [doc EXCEPT !.pages[cursor] = WithLabel(@, Pass2Label(@, toc_target_map).label)]
    /\ hist' = Append(hist, Step("pass2", cursor,
                                 Pass2Label(doc.pages[cursor], toc_target_map).via,
                                 Pass2Label(doc.pages[cursor], toc_target_map).label))
    /\ IF cursor < Len(doc.pages)
       THEN cursor' = cursor + 1 /\ pc' = pc
       ELSE cursor' = 1 /\ pc' = "elements"
    /\ UNCHANGED <<input, qaVars, findings, refined, page_offset, toc_target_map>>

\* One turn of the third loop (lines 599-673); after the last one
\* classify_document returns.
ClassifyElements ==
    /\ pc = "elements"
    /\ doc' = [doc EXCEPT !.pages[cursor] = ClassifiedElements(@, page_offset.value)]
    /\ hist' = Append(hist, Step("elements", cursor, "", NoLabel))
    /\ IF cursor < Len(doc.pages)
       THEN cursor' = cursor + 1 /\ pc' = pc
       ELSE cursor' = 0 /\ pc' = "classified"
    /\ UNCHANGED <<input, qaVars, findings, refined, page_offset, toc_target_map>>

\* checkers/semantic_section_checker.py
\* The sections that a run of this size requires and no page has.
MissingSections(d) ==
    (IF Len(d.pages) <= 5 THEN {"cover", "toc"} ELSE {"income_statement", "balance_sheet"})
    \ {d.pages[i].semantic_section : i \in {k \in 1..Len(d.pages) :
                                               d.pages[k].semantic_section # NoValue}}

\* enumerate() indices of the pages without a semantic_section.
pages_without_section(d) ==
    {i - 1 : i \in {k \in 1..Len(d.pages) : d.pages[k].semantic_section = NoValue}}

SemanticSectionChecker_check(d) ==
    (IF MissingSections(d) # {}
     THEN <<Finding("SemanticSectionChecker", 0, "warning", "missing required sections")>>
     ELSE <<>>)
    \o
    (IF pages_without_section(d) # {}
     THEN <<Finding("SemanticSectionChecker", MinOf(pages_without_section(d)), "info",
                    "pages have null semantic_section")>>
     ELSE <<>>)

\* SemanticSectionChecker.check on the classified Document.
CheckSemanticSections ==
    /\ pc = "classified"
    /\ findings' = SemanticSectionChecker_check(doc)
    /\ pc' = "sections_checked"
    /\ UNCHANGED <<doc, input, qaVars, stageVars>>

NextClassify ==
    \/ Pass1Page \/ ComputeOffset \/ BuildTocTargetMap \/ Pass2Page \/ ClassifyElements
    \/ CheckSemanticSections

SpecClassify == InitClassify /\ [][NextClassify]_vars

-----------------------------------------------------------------------------
(* Properties of classify_document.                                          *)

\* The steps of one kind taken so far, as positions of the record of steps.
Steps(op) == {k \in DOMAIN hist : hist[k].op = op}

\* The pages that a kind of step has handled before step k.
HandledBefore(op, k) == {hist[j].page : j \in {i \in Steps(op) : i < k}}

AllPages == 1..Len(doc.pages)

\* The label pass 1 gave the page at a position of the list.
Pass1LabelOf(pos) == hist[CHOOSE k \in Steps("pass1") : hist[k].page = pos].label

\* The pages pass 2 has handled.
Pass2Done == {hist[k].page : k \in Steps("pass2")}

\* The page at a position of the list is a key of the TOC target map.
IsTocTarget(pos) == doc.pages[pos].page_index \in DOMAIN toc_target_map

\* C5 as stated: once pass 2 has handled a page whose physical index is a key
\* of the TOC target map, the page's semantic_section is the section the map
\* gives for that index.
C5_TocTargetAlwaysWins ==
    \A pos \in Pass2Done :
        IsTocTarget(pos) =>
            doc.pages[pos].semantic_section = toc_target_map[doc.pages[pos].page_index].section

\* C5, amended: once pass 2 has handled a page whose physical index is a key
\* of the TOC target map and which pass 1 labelled neither 'cover' nor 'toc',
\* the page's semantic_section is the section the map gives for that index and
\* its semantic_confidence is 0.85, whatever keyword matching or the hard
\* rules give that page.
C5_TocTargetWinsUnlessFrozen ==
    \A pos \in Pass2Done :
        (IsTocTarget(pos) /\ Pass1LabelOf(pos).section \notin {"cover", "toc"}) =>
            /\ doc.pages[pos].semantic_section = toc_target_map[doc.pages[pos].page_index].section
            /\ doc.pages[pos].semantic_confidence = SomeInt(85)

\* A page that the hard rules call a balance sheet with confidence 0.9 and
\* keyword matching leaves without a section has taken another section from
\* the TOC target map.
C5_Witness ==
    /\ pc = "classified"
    /\ \E pos \in Pass2Done :
          /\ IsTocTarget(pos)
          /\ Pass1LabelOf(pos).section = "appendix"
          /\ classify_page_with_hard_rules(input.pages[pos]) = Label("balance_sheet", 90)
          /\ toc_target_map[doc.pages[pos].page_index].section = "income_statement"
          /\ doc.pages[pos].semantic_section = "income_statement"
          /\ doc.pages[pos].semantic_confidence = SomeInt(85)

\* C6: every page that pass 1 labelled 'cover' or 'toc' leaves pass 2 with
\* the semantic_section and semantic_confidence pass 1 gave it, and keeps
\* them to the end of classify_document.
C6_CoverAndTocFrozen ==
    \A k \in Steps("pass2") :
        Pass1LabelOf(hist[k].page).section \in {"cover", "toc"} =>
            /\ hist[k].label = Pass1LabelOf(hist[k].page)
            /\ doc.pages[hist[k].page].semantic_section = Pass1LabelOf(hist[k].page).section
            /\ doc.pages[hist[k].page].semantic_confidence
                  = SomeInt(Pass1LabelOf(hist[k].page).confidence)

\* A cover page and a TOC page, both keys of the TOC target map, the TOC page
\* a balance sheet by the hard rules, have kept their labels of pass 1 to the
\* end.
C6_Witness ==
    /\ pc = "classified"
    /\ \E c, t \in AllPages :
          /\ IsTocTarget(c) /\ IsTocTarget(t)
          /\ Pass1LabelOf(c) = Label("cover", 90)
          /\ Pass1LabelOf(t) = Label("toc", 85)
          /\ classify_page_with_hard_rules(input.pages[t]) = Label("balance_sheet", 90)
          /\ doc.pages[c].semantic_section = "cover"
          /\ doc.pages[c].semantic_confidence = SomeInt(90)
          /\ doc.pages[t].semantic_section = "toc"
          /\ doc.pages[t].semantic_confidence = SomeInt(85)

C7_WitnessToc ==
    /\ pc = "toc_map"
    /\ CandidateOffsets(doc) = <<>>
    /\ doc.pages[2].semantic_section = "toc"
    /\ page_offset = SomeInt(0)

\* No candidate and no TOC page: the offset is 2.
C7_WitnessDefault ==
    /\ pc = "toc_map"
    /\ CandidateOffsets(doc) = <<>>
    /\ TocPositions(doc) = {}
    /\ page_offset = SomeInt(2)

\* C8: the offset and the TOC target map are computed at most once, and once
\* by the time pass 2 starts; when either is computed pass 1 has labelled
\* every page and pass 2 has handled none; every step of pass 2 comes after
\* both; and document.page_number_offset, once set, does not change.
C8_Barrier ==
    /\ [](/\ Cardinality(Steps("offset")) <= 1
          /\ Cardinality(Steps("toc_map")) <= 1
          /\ pc \in {"pass2", "elements", "classified"} =>
                Cardinality(Steps("offset")) = 1 /\ Cardinality(Steps("toc_map")) = 1
          /\ \A k \in Steps("offset") \cup Steps("toc_map") :
                HandledBefore("pass1", k) = AllPages /\ HandledBefore("pass2", k) = {}
          /\ \A k \in Steps("pass2") :
                /\ HandledBefore("pass1", k) = AllPages
                /\ \E i \in Steps("offset"), j \in Steps("toc_map") : i < k /\ j < k
          /\ doc.page_number_offset.is_none <=> Steps("offset") = {})
    /\ [][~doc.page_number_offset.is_none =>
             doc'.page_number_offset = doc.page_number_offset]_vars

\* classify_document has returned: every page went through both passes, with
\* one computation of the offset and one of the map in between.
C8_Witness ==
    /\ pc = "classified"
    /\ Len(doc.pages) > 1
    /\ Cardinality(Steps("pass1")) = Len(doc.pages)
    /\ Cardinality(Steps("pass2")) = Len(doc.pages)
    /\ Cardinality(Steps("offset")) = 1
    /\ Cardinality(Steps("toc_map")) = 1
    /\ doc.page_number_offset = page_offset
    /\ \E pos \in AllPages : doc.pages[pos].semantic_section # Pass1LabelOf(pos).section

\* C12: once classify_document has returned, every page has a semantic_section
\* and a semantic_confidence between 0 and 1, every Block and every Table has
\* a semantic_type, and SemanticSectionChecker.check on that Document returns
\* no INFO finding about pages with a null semantic_section.
C12_NothingLeftNull ==
    /\ pc \in {"classified", "sections_checked"} =>
          \A pos \in AllPages :
              /\ doc.pages[pos].semantic_section # NoValue
              /\ ~doc.pages[pos].semantic_confidence.is_none
              /\ doc.pages[pos].semantic_confidence.value \in 0..100
              /\ \A k \in 1..Len(doc.pages[pos].items) :
                    doc.pages[pos].items[k].semantic_type # NoValue
    /\ pc = "sections_checked" =>
          \A k \in 1..Len(findings) : findings[k].severity # "info"

\* A classified Document with a page that no keyword family and no hard rule
\* matches, a page without items, blocks and a table, checked by
\* SemanticSectionChecker.
C12_Witness ==
    /\ pc = "sections_checked"
    /\ \E pos \in AllPages :
          classify_page_section(input.pages[pos]).section = NoValue
          /\ classify_page_with_hard_rules(input.pages[pos]).section = NoValue
    /\ \E pos \in AllPages : doc.pages[pos].items = <<>>
    /\ \E pos \in AllPages : \E k \in 1..Len(doc.pages[pos].items) :
          IsTable(doc.pages[pos].items[k])
    /\ \E pos \in AllPages : \E k \in 1..Len(doc.pages[pos].items) :
          IsBlock(doc.pages[pos].items[k])
    /\ \A k \in 1..Len(findings) : findings[k].severity = "warning"

\* The page matches neither the page-level TOC heuristic nor a keyword family
\* of classify_page_section (lines 132-180), page_index being above 0.
Unmatched(page) ==
    /\ ~is_toc_page(page.items)
    /\ ~KeywordToc(page, TextSamples(page))
    /\ \A family \in { MANAGEMENT_REPORT_KEYWORDS, NOTES_KEYWORDS,
                       << <<"tase">>, <<"balance", " ", "sheet">> >>,
                       << <<"tuloslaskelma">>, <<"income", " ", "statement">> >>,
                       CASH_FLOW_KEYWORDS, ACCOUNTING_POLICIES_KEYWORDS } :
          ~AnyKeyword(Lower(Join(TextSamples(page))), family)

\* C13 as stated: after pass 1 every page with page_index > 0 that matches
\* neither the TOC heuristic nor a keyword family is 'appendix' with
\* confidence 0.1.
C13_AppendixTenth ==
    pc = "offset" =>
        \A pos \in AllPages :
            (doc.pages[pos].page_index > 0 /\ Unmatched(input.pages[pos])) =>
                /\ doc.pages[pos].semantic_section = "appendix"
                /\ doc.pages[pos].semantic_confidence = SomeInt(10)

\* C13, amended: after pass 1 every page with page_index > 0 that matches
\* neither the TOC heuristic nor a keyword family is 'appendix'; its
\* confidence is 0.3 when page_index > 0.8 * (number of items of the page) and
\* 0.1 otherwise.
C13_AppendixByItemCount ==
    pc = "offset" =>
        \A pos \in AllPages :
            (doc.pages[pos].page_index > 0 /\ Unmatched(input.pages[pos])) =>
                /\ doc.pages[pos].semantic_section = "appendix"
                /\ doc.pages[pos].semantic_confidence
                      = IF 10 * doc.pages[pos].page_index > 8 * Len(doc.pages[pos].items)
                        THEN SomeInt(30) ELSE SomeInt(10)

\* After pass 1: an unmatched page without items at confidence 0.3 and an
\* unmatched page of six blocks at confidence 0.1.
C13_Witness ==
    /\ pc = "offset"
    /\ \E a, b \in AllPages :
          /\ doc.pages[a].page_index > 0 /\ doc.pages[b].page_index > 0
          /\ Unmatched(input.pages[a]) /\ Unmatched(input.pages[b])
          /\ doc.pages[a].items = <<>>
          /\ doc.pages[a].semantic_section = "appendix"
          /\ doc.pages[a].semantic_confidence = SomeInt(30)
          /\ Len(doc.pages[b].items) = 6
          /\ doc.pages[b].semantic_section = "appendix"
          /\ doc.pages[b].semantic_confidence = SomeInt(10)

-----------------------------------------------------------------------------
(* CrossRefChecker: checkers/crossref_checker.py                             *)
(* A pattern is a sequence of words, "\\s*" and "\\s+", followed by (\d+);   *)
(* no word of the texts holds a pattern word as a proper part.               *)

RECURSIVE WsLen(_)
WsLen(t) == IF t # <<>> /\ IsWhitespace(Head(t)) THEN 1 + WsLen(Tail(t)) ELSE 0

Drop(t, n) == SubSeq(t, n + 1, Len(t))

\* The number of symbols that the pattern followed by (\d+) takes from the
\* start of t, or -1 when it does not match there.
RECURSIVE MatchEnd(_, _)
Consumed(n, rest) == IF rest < 0 THEN -1 ELSE n + rest

MatchEnd(pat, t) ==
    IF pat = <<>> THEN (IF DigitRun(t) = <<>> THEN -1 ELSE Len(DigitRun(t)))
    ELSE IF Head(pat) = "\\s*" THEN Consumed(WsLen(t), MatchEnd(Tail(pat), Drop(t, WsLen(t))))
    ELSE IF Head(pat) = "\\s+"
         THEN (IF WsLen(t) = 0 THEN -1
               ELSE Consumed(WsLen(t), MatchEnd(Tail(pat), Drop(t, WsLen(t)))))
    ELSE IF t # <<>> /\ Head(t) = Head(pat) THEN Consumed(1, MatchEnd(Tail(pat), Tail(t)))
    ELSE -1

\* One match: (match.group(0), int(match.group(1))).
Reference(ref_text) == [ref |-> ref_text, note |-> DigitsVal(TrailingDigits(ref_text))]

\* re.finditer(pattern, text): the matches from left to right.
FindIter(pat, t) ==
    [r \in 1..Cardinality({i \in 1..Len(t) : MatchEnd(pat, Drop(t, i - 1)) >= 0}) |->
        Reference(SubSeq(t,
                         SortedSeq({i \in 1..Len(t) : MatchEnd(pat, Drop(t, i - 1)) >= 0})[r],
                         SortedSeq({i \in 1..Len(t) : MatchEnd(pat, Drop(t, i - 1)) >= 0})[r]
                         + MatchEnd(pat, Drop(t, SortedSeq({i \in 1..Len(t) :
                               MatchEnd(pat, Drop(t, i - 1)) >= 0})[r] - 1)) - 1))]

finnish_patterns ==
    << <<"liite", "\\s*">>, <<"liitetieto", "\\s*">>, <<"ks", ".", "\\s*", "liite", "\\s*">> >>

english_patterns == << <<"note", "\\s*">>, <<"see", "\\s+", "note", "\\s*">> >>

extract_references(text) ==
    Flatten([k \in 1..Len(finnish_patterns \o english_patterns) |->
                FindIter((finnish_patterns \o english_patterns)[k], Lower(text))])

\* r"^(\d+)\." on the lower-cased text of a Block of a notes page.
LeadingNumber(t) ==
    IF DigitRun(t) # <<>> /\ Len(t) > Len(DigitRun(t)) /\ t[Len(DigitRun(t)) + 1] = "."
    THEN {DigitsVal(DigitRun(t))} ELSE {}

note_patterns == << <<"liite", "\\s*">>, <<"liitetieto", "\\s*">>, <<"note", "\\s*">> >>

BlockNoteNumbers(t) ==
    LeadingNumber(t)
    \cup UNION {{FindIter(note_patterns[k], t)[r].note : r \in 1..Len(FindIter(note_patterns[k], t))} :
                   k \in 1..Len(note_patterns)}

find_notes_section_numbers(d) ==
    UNION {BlockNoteNumbers(Lower(d.pages[p].items[i].text)) :
              <<p, i>> \in {x \in (1..Len(d.pages)) \X (1..20) :
                              /\ d.pages[x[1]].semantic_section = "notes"
                              /\ x[2] <= Len(d.pages[x[1]].items)
                              /\ IsBlock(d.pages[x[1]].items[x[2]])}}

\* The references of one item of a page outside the notes section, each with
\* the page's page_index.
ItemReferences(page, item) ==
    IF IsBlock(item)
    THEN [r \in 1..Len(extract_references(item.text)) |->
             [note |-> extract_references(item.text)[r].note,
              page_index |-> page.page_index,
              ref |-> extract_references(item.text)[r].ref]]
    ELSE <<>>

PageReferences(page) ==
    IF page.semantic_section = "notes" THEN <<>>
    ELSE Flatten([i \in 1..Len(page.items) |-> ItemReferences(page, page.items[i])])

\* all_references, in the order the references are collected.
CollectedReferences(d) == Flatten([p \in 1..Len(d.pages) |-> PageReferences(d.pages[p])])

\* The keys of all_references in insertion order, as positions of their
\* first reference.
FirstReferences(refs) ==
    SortedSeq({i \in 1..Len(refs) : \A j \in 1..(i - 1) : refs[j].note # refs[i].note})

TimesReferenced(refs, note) == Cardinality({i \in 1..Len(refs) : refs[i].note = note})

MissingNotes(refs, existing_notes) ==
    {refs[i].note : i \in 1..Len(refs)} \ existing_notes

\* Lines 135-151: one WARNING per referenced note number that the notes
\* section does not have.
MissingFindings(refs, existing_notes) ==
    [k \in 1..Len(SelectSeq(FirstReferences(refs),
                            LAMBDA i : refs[i].note \notin existing_notes)) |->
        Finding("CrossRefChecker",
                refs[SelectSeq(FirstReferences(refs),
                               LAMBDA i : refs[i].note \notin existing_notes)[k]].page_index,
                "warning",
                [msg |-> "not found in notes section",
                 ref |-> refs[SelectSeq(FirstReferences(refs),
                               LAMBDA i : refs[i].note \notin existing_notes)[k]].ref,
                 note |-> refs[SelectSeq(FirstReferences(refs),
                               LAMBDA i : refs[i].note \notin existing_notes)[k]].note,
                 times |-> TimesReferenced(refs,
                               refs[SelectSeq(FirstReferences(refs),
                                   LAMBDA i : refs[i].note \notin existing_notes)[k]].note)])]

\* Lines 154-166.
SummaryFinding(refs, existing_notes) ==
    IF refs # <<>>
    THEN <<Finding("CrossRefChecker", 0, "info",
                   [msg |-> "Cross-reference summary",
                    validated |-> Cardinality({refs[i].note : i \in 1..Len(refs)})
                                  - Cardinality(MissingNotes(refs, existing_notes)),
                    total |-> Cardinality({refs[i].note : i \in 1..Len(refs)}),
                    missing |-> SortedSeq(MissingNotes(refs, existing_notes))])>>
    ELSE <<>>

CheckReferences(refs, existing_notes) ==
    IF existing_notes = {}
    THEN <<Finding("CrossRefChecker", 0, "info", [msg |-> "No notes section found"])>>
    ELSE MissingFindings(refs, existing_notes) \o SummaryFinding(refs, existing_notes)

CrossRefChecker_check(d) == CheckReferences(CollectedReferences(d), find_notes_section_numbers(d))

\* The documents checked: up to MaxXRefPages pages, each in the notes section
\* or outside it, empty or holding one item.
MaxXRefPages == 3

XRefItems ==
    { MkBlock(<<"b">>, <<"Liite", " ", "5">>, BoxTall),
      MkBlock(<<"b">>, <<"ks", ".", " ", "liite", " ", "5", " ", "see", " ", "note", " ", "7">>, BoxTall),
      MkBlock(<<"b">>, <<"1", ".", " ", "liitetiedot">>, BoxTall),
      MkTable(<<"t">>, BoxTall, <<MkCell(0, 0, <<"liite", " ", "9">>)>>) }

XRefPage(index, section, items) ==
    [MkPage(index, 100, 100, items) EXCEPT !.semantic_section = section]

XRefPageChoices == {"notes", "balance_sheet"} \X ({<<>>} \cup {<<it>> : it \in XRefItems})

XRefDocs ==
    UNION {{MkDocument([p \in 1..n |-> XRefPage(p - 1, c[p][1], c[p][2])]) :
               c \in [1..n -> XRefPageChoices]} : n \in 1..MaxXRefPages}

InitXRef ==
    /\ doc \in XRefDocs
    /\ input = <<>>
    /\ pc = "xref_start"
    /\ behav = NoBehav
    /\ ran = <<>>
    /\ report = <<>>
    /\ files = {}
    /\ runs = 0
    /\ findings = <<>>
    /\ StageIdle

\* One call of CrossRefChecker.check(document).
XRef_Check ==
    /\ pc = "xref_start"
    /\ findings' = CrossRefChecker_check(doc)
    /\ pc' = "xref_done"
    /\ UNCHANGED <<doc, input, qaVars, stageVars>>

NextXRef == XRef_Check

SpecXRef == InitXRef /\ [][NextXRef]_vars

HasNotesPage(d) == \E p \in 1..Len(d.pages) : d.pages[p].semantic_section = "notes"

\* The WARNING findings about note number n.
WarningsAbout(n) ==
    {i \in 1..Len(findings) :
        findings[i].severity = "warning" /\ findings[i].reason.note = n}

\* Every note number of refs that existing_notes lacks has exactly one
\* WARNING, on the page of its first reference.
MissingAreWarned(refs, existing_notes) ==
    \A r \in 1..Len(refs) :
        (refs[r].note \notin existing_notes /\ \A q \in 1..(r - 1) : refs[q].note # refs[r].note)
        => /\ Cardinality(WarningsAbout(refs[r].note)) = 1
           /\ \A i \in WarningsAbout(refs[r].note) : findings[i].page_index = refs[r].page_index

\* C16: in a document with a page tagged 'notes', every note number that a
\* Block outside the notes pages references and the notes pages do not hold
\* gets exactly one WARNING, on the page of its first reference.
C16_MissingReferenceWarned ==
    (pc = "xref_done" /\ HasNotesPage(doc)) =>
        MissingAreWarned(CollectedReferences(doc), find_notes_section_numbers(doc))

\* C17: for every document the findings of CrossRefChecker.check include a
\* summary INFO finding with the validated and missing reference counts.
C17_SummaryAlways ==
    pc = "xref_done" =>
        \E i \in 1..Len(findings) :
            /\ findings[i].severity = "info"
            /\ findings[i].reason.msg = "Cross-reference summary"
            /\ findings[i].reason.total = Cardinality({CollectedReferences(doc)[r].note :
                                                          r \in 1..Len(CollectedReferences(doc))})

-----------------------------------------------------------------------------
(* DiffChecker: checkers/diff_checker.py                                     *)
(* check() works on dictionaries: document.model_dump() for the current      *)
(* document, the parsed JSON of the golden file for the snapshot. A page of  *)
(* a dictionary is a record of its "page_index", its "items" (each item the  *)
(* value of its "financial_type") and its "ocr_quality" entry.               *)

\* The "ocr_quality" entry of a page dictionary: the key is absent, or its
\* value is None, or a dictionary with or without a "status".
OcrAbsent == [key |-> "absent", has_status |-> FALSE, status |-> NoValue]
OcrNone == [key |-> "none", has_status |-> FALSE, status |-> NoValue]
OcrDict(has_status, status) == [key |-> "dict", has_status |-> has_status, status |-> status]

PageDict(page_index, items, ocr_quality) ==
    [page_index |-> page_index, items |-> items, ocr_quality |-> ocr_quality]

\* dict.get(key, 0) of a dictionary held as a set of <<key, value>> pairs.
GetOr0(counts, key) ==
    IF \E kv \in counts : kv[1] = key THEN (CHOOSE kv \in counts : kv[1] = key)[2] ELSE 0

Keys(counts) == {kv[1] : kv \in counts}

\* counts[page_idx] = len(items): a later page of the same index overwrites.
count_items_per_page(pages) ==
    {<<pages[p].page_index, Len(pages[p].items)>> :
        p \in {q \in 1..Len(pages) :
                 \A r \in (q + 1)..Len(pages) : pages[r].page_index # pages[q].page_index}}

\* "if ft:" drops None.
count_financial_types(pages) ==
    {<<ft, Cardinality({<<p, i>> \in (1..Len(pages)) \X (1..4) :
                           i <= Len(pages[p].items) /\ pages[p].items[i] = ft})>> :
        ft \in {pages[p].items[i] : <<p, i>> \in {x \in (1..Len(pages)) \X (1..4) :
                                                   x[2] <= Len(pages[x[1]].items)}} \ {NoValue}}

\* page.get("ocr_quality", {}) gives None for a key that holds None, and
\* None has no get(): the call raises AttributeError.
OcrQualityRaises(pages) == \E p \in 1..Len(pages) : pages[p].ocr_quality = OcrNone

OcrStatus(q) == IF q.key = "dict" /\ q.has_status THEN q.status ELSE "unknown"

summarize_ocr_quality(pages) ==
    {<<st, Cardinality({p \in 1..Len(pages) : OcrStatus(pages[p].ocr_quality) = st})>> :
        st \in {OcrStatus(pages[p].ocr_quality) : p \in 1..Len(pages)}}

\* item_diffs, the page indices taken in ascending order.
ItemDiffs(current_counts, golden_counts) ==
    SelectSeq(SortedSeq(Keys(current_counts) \cup Keys(golden_counts)),
              LAMBDA k : GetOr0(current_counts, k) # GetOr0(golden_counts, k))

ItemCountFinding(item_diffs) ==
    IF item_diffs # <<>>
    THEN <<Finding("DiffChecker", item_diffs[1], "warning",
                   [msg |-> "Item count changed", pages |-> Len(item_diffs)])>>
    ELSE <<>>

FinancialTypeFinding(current, golden) ==
    IF count_financial_types(current) # count_financial_types(golden)
    THEN <<Finding("DiffChecker", 0, "warning", [msg |-> "Financial type distribution changed"])>>
    ELSE <<>>

OcrQualityFinding(current, golden) ==
    IF summarize_ocr_quality(current) # summarize_ocr_quality(golden)
    THEN <<Finding("DiffChecker", 0, "info", [msg |-> "OCR quality distribution changed"])>>
    ELSE <<>>

DiffSummary(current, golden, item_diffs) ==
    Finding("DiffChecker", 0, "info",
            [msg |-> "Diff check completed", total_pages |-> Len(current),
             golden_pages |-> Len(golden), changed |-> Len(item_diffs)])

\* The golden file: missing, unreadable, or loaded as a list of pages.
GoldenMissing == [exists |-> FALSE, loads |-> FALSE, pages |-> <<>>]
GoldenUnreadable == [exists |-> TRUE, loads |-> FALSE, pages |-> <<>>]
GoldenLoaded(pages) == [exists |-> TRUE, loads |-> TRUE, pages |-> pages]

\* load_golden() returns None.
GoldenIsNone(golden) == ~golden.exists \/ ~golden.loads

\* The outcome of check(): an exception, or the findings returned.
DiffChecker_check(current, golden) ==
    IF GoldenIsNone(golden)
    THEN [raises |-> FALSE,
          findings |-> <<Finding("DiffChecker", 0, "info", [msg |-> "No golden file found"])>>]
    ELSE IF OcrQualityRaises(current) \/ OcrQualityRaises(golden.pages)
    THEN [raises |-> TRUE, findings |-> <<>>]
    ELSE [raises |-> FALSE,
          findings |->
              ItemCountFinding(ItemDiffs(count_items_per_page(current),
                                         count_items_per_page(golden.pages)))
              \o FinancialTypeFinding(current, golden.pages)
              \o OcrQualityFinding(current, golden.pages)
              \o <<DiffSummary(current, golden.pages,
                               ItemDiffs(count_items_per_page(current),
                                         count_items_per_page(golden.pages)))>>]

\* Up to MaxDiffPages pages in the document and in the snapshot.
MaxDiffPages == 2

DiffItems == {<<>>, <<"balance_sheet">>}

\* model_dump() always writes the "ocr_quality" key.
CurrentOcr == {OcrNone, OcrDict(FALSE, NoValue), OcrDict(TRUE, "good")}

GoldenOcr == {OcrAbsent} \cup CurrentOcr

DiffPages(ocr) ==
    UNION {{[p \in 1..n |-> PageDict(p - 1, c[p][1], c[p][2])] : c \in [1..n -> DiffItems \X ocr]} :
              n \in 0..MaxDiffPages}

Goldens == {GoldenMissing, GoldenUnreadable} \cup {GoldenLoaded(g) : g \in DiffPages(GoldenOcr)}

InitDiff ==
    /\ doc \in DiffPages(CurrentOcr)
    /\ input \in Goldens
    /\ pc = "diff_start"
    /\ behav = NoBehav
    /\ ran = <<>>
    /\ report = <<>>
    /\ files = {}
    /\ runs = 0
    /\ findings = <<>>
    /\ StageIdle

\* One call of DiffChecker.check(document) that returns.
Diff_Check ==
    /\ pc = "diff_start"
    /\ ~DiffChecker_check(doc, input).raises
    /\ findings' = DiffChecker_check(doc, input).findings
    /\ pc' = "diff_done"
    /\ UNCHANGED <<doc, input, qaVars, stageVars>>

\* One call of DiffChecker.check(document) that ends in an exception.
Diff_CheckRaises ==
    /\ pc = "diff_start"
    /\ DiffChecker_check(doc, input).raises
    /\ pc' = "diff_raised"
    /\ UNCHANGED <<doc, input, findings, qaVars, stageVars>>

NextDiff == Diff_Check \/ Diff_CheckRaises

SpecDiff == InitDiff /\ [][NextDiff]_vars

\* C18: without a golden file check() returns exactly one finding, an INFO;
\* with a golden file that loads, check() returns for every document and
\* snapshot, and its last finding is the INFO summary with the page counts.
C18_DiffAlwaysReturns ==
    /\ pc # "diff_raised"
    /\ (pc = "diff_done" /\ ~input.exists) =>
           Len(findings) = 1 /\ findings[1].severity = "info"
    /\ (pc = "diff_done" /\ input.exists /\ input.loads) =>
           /\ findings # <<>>
           /\ findings[Len(findings)].severity = "info"
           /\ findings[Len(findings)].reason.msg = "Diff check completed"
           /\ findings[Len(findings)].reason.total_pages = Len(doc)
           /\ findings[Len(findings)].reason.golden_pages = Len(input.pages)

-----------------------------------------------------------------------------
(* Python floats.  SumChecker adds, subtracts and compares the parsed        *)
(* numbers as IEEE 754 doubles.  A double is the record [neg, bits, exp]: the *)
(* binary digits of an integer, most significant first, times 2^exp, with at *)
(* most MantissaBits significant digits.  Every operation computes the exact *)
(* result and rounds it to nearest, ties to even.                            *)

MantissaBits == 53

\* Binary digits kept after the binary point before rounding a decimal.
FracDigits == MantissaBits + 17

RECURSIVE BitsOfInt(_)
BitsOfInt(n) == IF n = 0 THEN <<>> ELSE BitsOfInt(n \div 2) \o <<n % 2>>

\* 2^k modulo d.
RECURSIVE Pow2Mod(_, _)
Pow2Mod(k, d) ==
    IF k = 0 THEN 1 % d
    ELSE IF k % 2 = 0 THEN (Pow2Mod(k \div 2, d) * Pow2Mod(k \div 2, d)) % d
    ELSE (2 * Pow2Mod(k - 1, d)) % d

\* What is left of r / d after its first k binary digits, for 0 <= r < d.
FracRest(r, d, k) == (r * Pow2Mod(k, d)) % d

\* The first k >= 1 binary digits of r / d, one half after the other.
RECURSIVE FracBits(_, _, _)
FracBits(r, d, k) ==
    IF k = 1 THEN <<(2 * r) \div d>>
    ELSE FracBits(r, d, k \div 2) \o FracBits(FracRest(r, d, k \div 2), d, k - k \div 2)

StripZeros(bits) ==
    IF \A i \in 1..Len(bits) : bits[i] = 0 THEN <<>>
    ELSE SubSeq(bits,
                CHOOSE i \in 1..Len(bits) : bits[i] = 1 /\ \A j \in 1..(i - 1) : bits[j] = 0,
                Len(bits))

Zeros(n) == [i \in 1..n |-> 0]

\* bits + 1.
BitsInc(bits) ==
    IF \A i \in 1..Len(bits) : bits[i] = 1 THEN <<1>> \o Zeros(Len(bits))
    ELSE [i \in 1..Len(bits) |->
             IF \A j \in i..Len(bits) : bits[j] = 1 THEN 0
             ELSE IF \A j \in (i + 1)..Len(bits) : bits[j] = 1 THEN 1
             ELSE bits[i]] \o <<>>

\* Round to nearest, ties to even: b has no leading zero, sticky tells that
\* the exact value lies above b * 2^exp.
RoundBits(b, exp, sticky) ==
    IF Len(b) <= MantissaBits THEN [bits |-> b, exp |-> exp]
    ELSE [bits |-> IF /\ b[MantissaBits + 1] = 1
                      /\ \/ sticky
                         \/ \E i \in (MantissaBits + 2)..Len(b) : b[i] = 1
                         \/ b[MantissaBits] = 1
                   THEN BitsInc(SubSeq(b, 1, MantissaBits))
                   ELSE SubSeq(b, 1, MantissaBits),
          exp |-> exp + Len(b) - MantissaBits]

MkFloat(neg, mag) == [neg |-> neg, bits |-> mag.bits, exp |-> mag.exp]

\* float(text) of the decimal m / 10^e, m >= 0.
FloatOfDecimal(m, e) ==
    RoundBits(StripZeros(BitsOfInt(m \div Pow10(e))
                         \o FracBits(m % Pow10(e), Pow10(e), FracDigits)),
              0 - FracDigits,
              FracRest(m % Pow10(e), Pow10(e), FracDigits) # 0)

\* The float of a parsed number.
Float(v) == MkFloat(v.m < 0, FloatOfDecimal(Abs(v.m), v.e))

Min(a, b) == IF a <= b THEN a ELSE b

\* The digits of x * 2^(x.exp - e) padded on the left to n digits.
Aligned(x, e, n) == Zeros(n - Len(x.bits) - (x.exp - e)) \o x.bits \o Zeros(x.exp - e)

AlignedLen(x, y) ==
    Max(Len(x.bits) + x.exp - Min(x.exp, y.exp), Len(y.bits) + y.exp - Min(x.exp, y.exp))

\* Digit sequences are added and subtracted in groups of 16 digits.
RECURSIVE BitsVal(_)
BitsVal(bits) ==
    IF bits = <<>> THEN 0
    ELSE 2 * BitsVal(SubSeq(bits, 1, Len(bits) - 1)) + bits[Len(bits)]

\* bits as numbers below 2^16, zeros added on the left to fill the first group.
Groups(bits) ==
    [k \in 1..((Len(bits) + 15) \div 16) |->
        BitsVal(SubSeq(Zeros((16 - (Len(bits) % 16)) % 16) \o bits, 16 * (k - 1) + 1, 16 * k))]

Ungroup(groups) ==
    [i \in 1..(16 * Len(groups)) |->
        (groups[(i - 1) \div 16 + 1] \div 2^(15 - ((i - 1) % 16))) % 2] \o <<>>

\* a + b + c for group sequences of one length and a carry c.
RECURSIVE GroupsAdd(_, _, _)
GroupsAdd(a, b, c) ==
    IF a = <<>> THEN <<c>>
    ELSE GroupsAdd(SubSeq(a, 1, Len(a) - 1), SubSeq(b, 1, Len(b) - 1),
                   (a[Len(a)] + b[Len(b)] + c) \div 2^16)
         \o <<(a[Len(a)] + b[Len(b)] + c) % 2^16>>

\* a - b - c for group sequences of one length and a borrow c, a >= b + c.
RECURSIVE GroupsSub(_, _, _)
GroupsSub(a, b, c) ==
    IF a = <<>> THEN <<>>
    ELSE GroupsSub(SubSeq(a, 1, Len(a) - 1), SubSeq(b, 1, Len(b) - 1),
                   IF a[Len(a)] - b[Len(b)] - c < 0 THEN 1 ELSE 0)
         \o <<(a[Len(a)] - b[Len(b)] - c + 2^16) % 2^16>>

\* a + b and, for a >= b, a - b, for digit sequences of one length; the
\* result may begin with zeros.
BitsAdd(a, b) == Ungroup(GroupsAdd(Groups(a), Groups(b), 0))

BitsSub(a, b) == Ungroup(GroupsSub(Groups(a), Groups(b), 0))

\* a < b for digit sequences of one length.
BitsLess(a, b) ==
    \E i \in 1..Len(a) : a[i] < b[i] /\ \A j \in 1..(i - 1) : a[j] = b[j]

\* x + y for aligned digits a of x and b of y at exponent e.
AddAligned(xneg, a, yneg, b, e) ==
    IF xneg = yneg THEN MkFloat(xneg, RoundBits(StripZeros(BitsAdd(a, b)), e, FALSE))
    ELSE IF a = b THEN MkFloat(FALSE, RoundBits(<<>>, e, FALSE))
    ELSE IF BitsLess(a, b) THEN MkFloat(yneg, RoundBits(StripZeros(BitsSub(b, a)), e, FALSE))
    ELSE MkFloat(xneg, RoundBits(StripZeros(BitsSub(a, b)), e, FALSE))

FloatAdd(x, y) ==
    AddAligned(x.neg, Aligned(x, Min(x.exp, y.exp), AlignedLen(x, y)),
               y.neg, Aligned(y, Min(x.exp, y.exp), AlignedLen(x, y)),
               Min(x.exp, y.exp))

FloatNeg(x) == [x EXCEPT !.neg = ~x.neg]

FloatSub(x, y) == FloatAdd(x, FloatNeg(y))

FloatAbs(x) == [x EXCEPT !.neg = FALSE]

\* x > y for x, y >= 0.
FloatGreater(x, y) ==
    BitsLess(Aligned(y, Min(x.exp, y.exp), AlignedLen(x, y)),
             Aligned(x, Min(x.exp, y.exp), AlignedLen(x, y)))

\* sum(values): the floats added from left to right, starting from the int 0.
RECURSIVE FloatSum(_)
FloatSum(values) ==
    IF values = <<>> THEN MkFloat(FALSE, RoundBits(<<>>, 0, FALSE))
    ELSE IF Len(values) = 1 THEN values[1]
    ELSE FloatAdd(FloatSum(SubSeq(values, 1, Len(values) - 1)), values[Len(values)])

-----------------------------------------------------------------------------
(* SumChecker: checkers/sum_checker.py                                       *)

\* SumChecker.parse_number: the euro sign and "%" are removed.
Sum_parse_number(text) ==
    IF Strip(text) = <<>> THEN NoNumber
    ELSE LET t1 == RemoveChar(RemoveChar(ReplaceChar(RemoveChar(Strip(text), " "), ",", "."),
                                         EUR), "%")
             is_negative == IsParenthesised(t1)
             value == SearchNumber(IF is_negative THEN SubSeq(t1, 2, Len(t1) - 1) ELSE t1)
         IN  IF is_negative THEN Negate(value) ELSE value

sum_keywords == {<<"yhteensa">>, <<"total">>, <<"sum">>, <<"kokonaismaara">>}

\* The keys of rows, in the order the dictionary got them.
RowIds(cells) ==
    [k \in 1..Cardinality({cells[i].row : i \in 1..Len(cells)}) |->
        cells[SortedSeq({i \in 1..Len(cells) :
                            \A j \in 1..(i - 1) : cells[j].row # cells[i].row})[k]].row]

is_sum_row(row_cells) == ContainsAny(Lower(row_cells[1].text_raw), sum_keywords)

\* numeric_values: the numbers parsed from the cells after the label.
numeric_values(row_cells) ==
    SelectSeq([i \in 1..(Len(row_cells) - 1) |-> Sum_parse_number(row_cells[i + 1].text_raw)],
              LAMBDA v : v # NoNumber)

\* abs(expected - actual) > 0.01, in floats.
SumMismatch(values) ==
    FloatGreater(FloatAbs(FloatSub(FloatSum([i \in 1..(Len(values) - 1) |-> Float(values[i])]),
                                   Float(values[Len(values)]))),
                 Float([m |-> 1, e |-> 2]))

RowFindings(page, table, row_idx, is_sum, values) ==
    IF is_sum /\ Len(values) >= 2 /\ SumMismatch(values)
    THEN <<Finding("SumChecker", page.page_index, "warning",
                   [msg |-> "Sum mismatch", table_id |-> table.table_id, row |-> row_idx])>>
    ELSE <<>>

TableSumFindings(page, table) ==
    Flatten([k \in 1..Len(RowIds(table.cells)) |->
        RowFindings(page, table, RowIds(table.cells)[k],
                    is_sum_row(RowCells(table, RowIds(table.cells)[k])),
                    numeric_values(RowCells(table, RowIds(table.cells)[k])))])

ItemSumFindings(page, item) ==
    IF IsTable(item) /\ item.cells # <<>> THEN TableSumFindings(page, item) ELSE <<>>

SumChecker_check(d) ==
    Flatten([p \in 1..Len(d.pages) |->
        Flatten([i \in 1..Len(d.pages[p].items) |->
            ItemSumFindings(d.pages[p], d.pages[p].items[i])])])

\* The tables checked: one row of a label and up to MaxSumValues further
\* cells, alone or followed by a second row.
MaxSumValues == 3

SumLabels == {<<"Yhteensa">>, <<"summa">>, <<"Muut">>}

SumTexts ==
    { <<"1", ",", "0", "0">>, <<"1", ",", "0", "1">>, <<"2", ",", "0", "0">>,
      <<"2", ",", "0", "1">>, <<"(", "1", ",", "0", "0", ")">>, <<"a">> }

SumRow(row, label, texts) ==
    <<MkCell(row, 0, label)>> \o [i \in 1..Len(texts) |-> MkCell(row, i, texts[i])]

SecondRows ==
    { <<>>,
      SumRow(1, <<"Yhteensa">>, << <<"1", ",", "0", "0">>, <<"2", ",", "0", "0">> >>),
      SumRow(1, <<"Muut">>, << <<"1", ",", "0", "0">>, <<"2", ",", "0", "0">> >>) }

SumTables ==
    {MkTable(<<"t">>, BoxTall, SumRow(0, label, texts) \o second) :
        label \in SumLabels,
        texts \in UNION {[1..n -> SumTexts] : n \in 1..MaxSumValues},
        second \in SecondRows}

InitSum ==
    /\ doc \in {MkDocument(<<MkPage(0, 100, 100, <<table>>)>>) : table \in SumTables}
    /\ input = <<>>
    /\ pc = "sum_start"
    /\ behav = NoBehav
    /\ ran = <<>>
    /\ report = <<>>
    /\ files = {}
    /\ runs = 0
    /\ findings = <<>>
    /\ StageIdle

\* One call of SumChecker.check(document).
Sum_Check ==
    /\ pc = "sum_start"
    /\ findings' = SumChecker_check(doc)
    /\ pc' = "sum_done"
    /\ UNCHANGED <<doc, input, qaVars, stageVars>>

NextSum == Sum_Check

SpecSum == InitSum /\ [][NextSum]_vars

\* The WARNING findings about row row_idx of the table.
RowWarnings(row_idx) ==
    {i \in 1..Len(findings) :
        findings[i].severity = "warning" /\ findings[i].reason.row = row_idx}

\* |last value - sum of the values before it| > 0.01, the values taken as the
\* decimal numbers written in the cells (in hundredths: more than 1).
ExceedsCent(values) ==
    Abs(Scaled(values[Len(values)], 2)
        - SumSeq([i \in 1..(Len(values) - 1) |-> Scaled(values[i], 2)])) > 1

RowAsClaimed(row_idx, row_cells, values) ==
    IF is_sum_row(row_cells) /\ Len(values) >= 2
    THEN Cardinality(RowWarnings(row_idx)) = (IF ExceedsCent(values) THEN 1 ELSE 0)
    ELSE RowWarnings(row_idx) = {}

\* C19: a row with a sum keyword in its first cell and at least two numbers
\* after it gets exactly one WARNING if and only if the last number differs
\* from the sum of the numbers before it by more than 0.01; any other row
\* gets no finding.
C19_SumRowWarnedIffOff ==
    pc = "sum_done" =>
        \A k \in 1..Len(RowIds(doc.pages[1].items[1].cells)) :
            RowAsClaimed(RowIds(doc.pages[1].items[1].cells)[k],
                         RowCells(doc.pages[1].items[1],
                                  RowIds(doc.pages[1].items[1].cells)[k]),
                         numeric_values(RowCells(doc.pages[1].items[1],
                                                 RowIds(doc.pages[1].items[1].cells)[k])))

-----------------------------------------------------------------------------
(* SpecParse: the three number parsers applied to the text of one cell.      *)

\* Longest cell text (in characters) drawn for the parsers.
MaxParseLen == 5

ParseAlphabet == {"(", ")", "1", EUR, "%", "t"}

ParseTexts == SeqsUpTo(ParseAlphabet, MaxParseLen)

CellText(d) == d.pages[1].items[1].cells[1].text_raw

Parsed(parser, value) == [parser |-> parser, value |-> value]

InitParse ==
    /\ doc \in {MkDocument(<<MkPage(0, 100, 100, <<MkTable("t1", PageBox, <<MkCell(0, 0, t)>>)>>)>>) :
                   t \in ParseTexts}
    /\ input = <<>>
    /\ pc = "parse_start"
    /\ behav = NoBehav
    /\ ran = <<>>
    /\ report = <<>>
    /\ files = {}
    /\ runs = 0
    /\ findings = <<>>
    /\ StageIdle

\* normalize_number(cell.text_raw)[0]
Parse_Normalize ==
    /\ pc = "parse_start"
    /\ hist' = Append(hist, Parsed("normalize_number", normalize_number(CellText(doc))[1]))
    /\ pc' = "parse_sum"
    /\ UNCHANGED <<doc, input, findings, qaVars, refined, cursor, page_offset, toc_target_map>>

\* SumChecker.parse_number(cell.text_raw)
Parse_Sum ==
    /\ pc = "parse_sum"
    /\ hist' = Append(hist, Parsed("SumChecker", Sum_parse_number(CellText(doc))))
    /\ pc' = "parse_balance"
    /\ UNCHANGED <<doc, input, findings, qaVars, refined, cursor, page_offset, toc_target_map>>

\* BalanceSheetChecker.parse_number(cell.text_raw)
Parse_Balance ==
    /\ pc = "parse_balance"
    /\ hist' = Append(hist, Parsed("BalanceSheetChecker", BS_parse_number(CellText(doc))))
    /\ pc' = "parsed"
    /\ UNCHANGED <<doc, input, findings, qaVars, refined, cursor, page_offset, toc_target_map>>

\* normalize_document(document), after the three calls.
Parse_NormalizeDocument ==
    /\ pc = "parsed"
    /\ doc' = normalize_document(doc)
    /\ pc' = "parse_normalized"
    /\ UNCHANGED <<input, findings, qaVars, stageVars>>

NextParse == Parse_Normalize \/ Parse_Sum \/ Parse_Balance \/ Parse_NormalizeDocument

SpecParse == InitParse /\ [][NextParse]_vars

\* C20: normalize_number (its number), SumChecker.parse_number and
\* BalanceSheetChecker.parse_number return the same result for every text.
C20_ParsersAgree ==
    pc = "parsed" => hist[1].value = hist[2].value /\ hist[2].value = hist[3].value

\* The unit marker a text carries.
MarkerCarried(t) ==
    IF Occurs(<<"t", EUR>>, t) THEN "tEUR"
    ELSE IF Occurs(<<EUR>>, t) THEN "EUR"
    ELSE IF Occurs(<<"%">>, t) THEN "%"
    ELSE NoValue

CarriesOneMarker(t) ==
    /\ Occurs(<<"1">>, t)
    /\ MarkerCarried(t) # NoValue
    /\ ~(Occurs(<<EUR>>, t) /\ Occurs(<<"%">>, t))
    /\ MarkerCarried(t) = "tEUR" =>
           Cardinality({i \in 1..Len(t) : t[i] = EUR}) = 1

\* C21: for a text with a digit that carries one of the markers "t€", "€"
\* and "%", normalize_number returns that marker as the unit, and
\* normalize_document leaves it in the Cell's unit.
C21_UnitIsMarkerCarried ==
    [][(pc = "parsed" /\ CarriesOneMarker(CellText(doc))) =>
          /\ normalize_number(CellText(doc))[2] = MarkerCarried(CellText(doc))
          /\ doc'.pages[1].items[1].cells[1].unit = MarkerCarried(CellText(doc))]_vars

-----------------------------------------------------------------------------
(* The structured check records of the QAReport.                             *)

\* C22: whenever BalanceSheetChecker reports a mismatch finding for a table,
\* the QAReport returned by run_qa_checks holds in balance_checks a
\* BalanceCheck record for that page and table with the assets, liabilities,
\* difference and severity the checker computed.
C22_BalanceChecksRecorded ==
    (pc = "bs_reported" /\ findings # <<>>) =>
        /\ Len(local_balance_checks(doc)) = Len(findings)
        /\ \A i \in 1..Len(findings) :
              \E j \in 1..Len(report[1].balance_checks) :
                  /\ report[1].balance_checks[j] = local_balance_checks(doc)[i]
                  /\ report[1].balance_checks[j].page_index = findings[i].page_index
                  /\ report[1].balance_checks[j].severity = findings[i].severity

-----------------------------------------------------------------------------
(* LOC counter: tools/loc_counter.py                                         *)
(* A source line is a sequence of symbols: " ", a word, or one of the        *)
(* comment markers "#", "//", "/*", "*/", "--", "<!--", "-->".               *)

\* sub in line
HasMarker(line, marker) == \E i \in 1..Len(line) : line[i] = marker

\* line.split(marker)[0].strip(): what precedes the first marker, stripped.
BeforeMarker(line, marker) ==
    Strip(SubSeq(line, 1, (CHOOSE i \in 1..Len(line) :
                              line[i] = marker /\ \A j \in 1..(i - 1) : line[j] # marker) - 1))

NoLines == [code |-> 0, comments |-> 0, blanks |-> 0, in_multiline |-> FALSE]

\* One turn of the line loop of count_lines_python_style.
PythonStyleLine(acc, line) ==
    IF Strip(line) = <<>> THEN [acc EXCEPT !.blanks = @ + 1]
    ELSE IF Head(Strip(line)) = "#" THEN [acc EXCEPT !.comments = @ + 1]
    ELSE [acc EXCEPT !.code = @ + 1]

\* One turn of the line loop of count_lines_c_style and of
\* count_lines_html_xml_style, which differ in their markers and in the "//"
\* branch (inline holds "//" for the C style, nothing for HTML/XML).
BlockStyleLine(acc, line, open, close, inline) ==
    LET in_multiline == IF HasMarker(line, close) THEN FALSE
                        ELSE IF HasMarker(line, open) THEN TRUE
                        ELSE acc.in_multiline
    IN  IF Strip(line) = <<>> THEN [acc EXCEPT !.blanks = @ + 1]
        ELSE IF in_multiline
             THEN [acc EXCEPT !.comments = @ + 1, !.in_multiline = TRUE]
        ELSE IF inline # <<>> /\ HasMarker(line, inline[1])
             THEN IF BeforeMarker(line, inline[1]) # <<>>
                  THEN [acc EXCEPT !.code = @ + 1, !.comments = @ + 1, !.in_multiline = FALSE]
                  ELSE [acc EXCEPT !.comments = @ + 1, !.in_multiline = FALSE]
        ELSE IF HasMarker(line, open) /\ HasMarker(line, close)
             THEN IF BeforeMarker(line, open) # <<>>
                  THEN [acc EXCEPT !.code = @ + 1, !.comments = @ + 1, !.in_multiline = FALSE]
                  ELSE [acc EXCEPT !.comments = @ + 1, !.in_multiline = FALSE]
        ELSE [acc EXCEPT !.code = @ + 1, !.in_multiline = FALSE]

\* One turn of the line loop of count_lines_sql_style.
SqlStyleLine(acc, line) ==
    IF Strip(line) = <<>> THEN [acc EXCEPT !.blanks = @ + 1]
    ELSE IF HasMarker(line, "--")
         THEN IF BeforeMarker(line, "--") # <<>>
              THEN [acc EXCEPT !.code = @ + 1, !.comments = @ + 1]
              ELSE [acc EXCEPT !.comments = @ + 1]
    ELSE [acc EXCEPT !.code = @ + 1]

\* One turn of the line loop of count_lines_no_comments.
NoCommentsLine(acc, line) ==
    IF Strip(line) = <<>> THEN [acc EXCEPT !.blanks = @ + 1]
    ELSE [acc EXCEPT !.code = @ + 1]

RECURSIVE count_lines_python_style(_)
count_lines_python_style(lines) ==
    IF lines = <<>> THEN NoLines
    ELSE PythonStyleLine(count_lines_python_style(SubSeq(lines, 1, Len(lines) - 1)),
                         lines[Len(lines)])

RECURSIVE count_lines_c_style(_)
count_lines_c_style(lines) ==
    IF lines = <<>> THEN NoLines
    ELSE BlockStyleLine(count_lines_c_style(SubSeq(lines, 1, Len(lines) - 1)),
                        lines[Len(lines)], "/*", "*/", <<"//">>)

RECURSIVE count_lines_sql_style(_)
count_lines_sql_style(lines) ==
    IF lines = <<>> THEN NoLines
    ELSE SqlStyleLine(count_lines_sql_style(SubSeq(lines, 1, Len(lines) - 1)),
                      lines[Len(lines)])

RECURSIVE count_lines_html_xml_style(_)
count_lines_html_xml_style(lines) ==
    IF lines = <<>> THEN NoLines
    ELSE BlockStyleLine(count_lines_html_xml_style(SubSeq(lines, 1, Len(lines) - 1)),
                        lines[Len(lines)], "<!--", "-->", <<>>)

RECURSIVE count_lines_no_comments(_)
count_lines_no_comments(lines) ==
    IF lines = <<>> THEN NoLines
    ELSE NoCommentsLine(count_lines_no_comments(SubSeq(lines, 1, Len(lines) - 1)),
                        lines[Len(lines)])

\* count_lines(file_path, language), on the lines of the file.
count_lines(lines, language) ==
    IF language \in {"Python", "Shell", "PowerShell", "YAML"}
    THEN count_lines_python_style(lines)
    ELSE IF language \in {"C", "C++", "Java", "JavaScript", "TypeScript", "Go", "Rust",
                          "PHP", "C#"}
    THEN count_lines_c_style(lines)
    ELSE IF language = "SQL" THEN count_lines_sql_style(lines)
    ELSE IF language \in {"HTML", "XML"} THEN count_lines_html_xml_style(lines)
    ELSE count_lines_no_comments(lines)

\* EXT_TO_LANG restricted to the extensions of the files drawn.
get_language(path) ==
    CASE path.suffix = ".py" -> "Python"
      [] path.suffix = ".js" -> "JavaScript"
      [] path.suffix = ".sql" -> "SQL"
      [] path.suffix = ".html" -> "HTML"
      [] path.suffix = ".json" -> "JSON"
      [] OTHER -> "Other"

\* should_exclude_path(file_path, root, None): a part of the path in
\* EXCLUDED_DIRS, or a binary extension (no file drawn matches EXCLUDED_PATTERNS).
should_exclude_path(path) ==
    \/ \E i \in 1..Len(path.parts) : path.parts[i] \in {"node_modules", ".git", "dist", "build"}
    \/ path.suffix \in {".png", ".pdf", ".pyc"}

\* The loop body of scan_directory for one file: the entry (code, non_empty,
\* path) appended to files_by_code, if any.
FileEntry(file) ==
    LET c == count_lines(file.lines, get_language(file.path))
    IN  IF should_exclude_path(file.path) THEN <<>>
        ELSE IF c.code + c.comments + c.blanks > 0
        THEN <<[code |-> c.code, non_empty |-> c.code + c.comments, path |-> file.path]>>
        ELSE <<>>

\* The entries in the order of the walk.
ScanEntries(dir) == Flatten([i \in 1..Len(dir) |-> FileEntry(dir[i])])

\* A variant of SortDescending that leaves the entries in the order of the walk.
SortDescending_Unsorted(entries, key) == entries

\* list.sort(reverse=True, key=...): non-increasing key, equal keys keeping
\* the order of the walk.
SortDescending(entries, key) ==
    StableSort(entries, [i \in 1..Len(entries) |-> <<0 - key[i], 0>>])

\* scan_directory(root, use_gitignore=False): the two file lists it returns
\* (files_by_nonempty holds the pairs (non_empty, code, path)).
scan_directory(dir) ==
    LET entries == ScanEntries(dir)
    IN  [files_by_code |->
             SortDescending(entries, [i \in 1..Len(entries) |-> entries[i].code]),
         files_by_nonempty |->
             SortDescending(entries, [i \in 1..Len(entries) |-> entries[i].non_empty])]

-----------------------------------------------------------------------------
(* SpecLoc: scan_directory on a directory tree of up to four files, each of  *)
(* at most MaxFileLines lines.                                               *)

MaxFileLines == 2

PythonLines == { <<" ">>, <<"x">>, <<"#", " ", "c">> }

JsLines == { <<"x", " ", "//", "c">>, <<"/*", "c">>, <<"x", "*/">> }

SqlLines == { <<"--", "c">>, <<"x", " ", "--", "c">> }

Path(parts, suffix) == [parts |-> parts, suffix |-> suffix]

\* A slot of the tree holds no file or one file.
Slot(path, contents) == {<<>>} \cup {<<[path |-> path, lines |-> ls]>> : ls \in contents}

\* The trees drawn, in the order of the walk: a.py, logo.png, sub/b.js,
\* sub/c.sql and node_modules/d.js.
Directories ==
    { a \o <<[path |-> Path(<<"logo.png">>, ".png"), lines |-> <<<<"x">>>>]>> \o b \o c \o d :
        a \in Slot(Path(<<"a.py">>, ".py"), SeqsUpTo(PythonLines, MaxFileLines)),
        b \in Slot(Path(<<"sub", "b.js">>, ".js"), SeqsUpTo(JsLines, MaxFileLines)),
        c \in Slot(Path(<<"sub", "c.sql">>, ".sql"), SeqsUpTo(SqlLines, MaxFileLines)),
        d \in Slot(Path(<<"node_modules", "d.js">>, ".js"), {<<<<"x">>, <<"x">>, <<"x">>>>}) }

InitLoc ==
    /\ doc \in Directories
    /\ input = doc
    /\ pc = "scan_start"
    /\ behav = NoBehav
    /\ ran = <<>>
    /\ report = <<>>
    /\ files = {}
    /\ runs = 0
    /\ findings = <<>>
    /\ StageIdle

\* One call of scan_directory(root).
Loc_Scan ==
    /\ pc = "scan_start"
    /\ report' = <<scan_directory(doc)>>
    /\ pc' = "scanned"
    /\ UNCHANGED <<doc, input, behav, ran, files, runs, findings, stageVars>>

NextLoc == Loc_Scan

SpecLoc == InitLoc /\ [][NextLoc]_vars

NonIncreasing(keys) == \A i \in 1..(Len(keys) - 1) : keys[i] >= keys[i + 1]

\* C23: files_by_code is sorted by code LOC in non-increasing order,
\* files_by_nonempty by non-empty LOC in non-increasing order, and every file
\* of files_by_code has code LOC <= non-empty LOC, whatever the directory holds.
C23_ScanSorted ==
    pc = "scanned" =>
        LET by_code == report[1].files_by_code
            by_nonempty == report[1].files_by_nonempty
        IN  /\ NonIncreasing([i \in 1..Len(by_code) |-> by_code[i].code])
            /\ NonIncreasing([i \in 1..Len(by_nonempty) |-> by_nonempty[i].non_empty])
            /\ \A i \in 1..Len(by_code) : by_code[i].code <= by_code[i].non_empty

\* Three files were counted, the walk met them in increasing order of code
\* LOC, and one of them has comment lines.
C23_Witness ==
    /\ pc = "scanned"
    /\ Len(report[1].files_by_code) = 3
    /\ ScanEntries(doc)[1].code < ScanEntries(doc)[2].code
    /\ ScanEntries(doc)[2].code < ScanEntries(doc)[3].code
    /\ \E i \in 1..3 : report[1].files_by_code[i].code < report[1].files_by_code[i].non_empty

-----------------------------------------------------------------------------
(* Which tables BalanceSheetChecker evaluates.                               *)

\* The condition under which C24 says the balance equation is evaluated.
TableOrPageIsBalanceSheet(page, table) ==
    table.financial_type = "balance_sheet" \/ page.semantic_section = "balance_sheet"

\* C24: BalanceSheetChecker evaluates the balance equation for a table if and
\* only if the table's financial_type is balance_sheet or its page's
\* semantic_section is 'balance_sheet'; a table on a page tagged balance_sheet
\* is examined even when its own financial_type is null or another type.
C24_ExaminedByTableOrPage ==
    pc = "bs_done" =>
        LET page == doc.pages[1]
            table == page.items[1]
        IN  /\ (PageIsExamined(page) /\ TableIsExamined(table))
                   <=> TableOrPageIsBalanceSheet(page, table)
            /\ findings = IF TableOrPageIsBalanceSheet(page, table)
                          THEN BalanceFindings(page, table) ELSE <<>>

-----------------------------------------------------------------------------
(* The reading order of a merged page.                                       *)

\* C25: on every page built by merge_page_elements the items are in
\* non-decreasing order of y0, with two columns as with one: a left-column
\* item never precedes a right-column item that starts strictly higher, and
\* the column only decides the order of items with equal y0.
C25_ItemsInY0Order ==
    pc = "merged" =>
        \A p \in 1..Len(doc.pages) :
            \A i \in 1..Len(doc.pages[p].items), j \in 1..Len(doc.pages[p].items) :
                i < j => doc.pages[p].items[i].bbox.y0 <= doc.pages[p].items[j].bbox.y0

\* A two-column page where the right-column block starts higher than the
\* left-column block and is read first.
C25_Witness ==
    /\ pc = "merged"
    /\ Len(doc.pages) = 2
    /\ Len(doc.pages[2].items) = 2
    /\ Len(cluster_columns(input.all_blocks[1], input.all_blocks[1][1].bbox.x1)) = 2
    /\ doc.pages[2].items[1].bbox = BoxInner
    /\ doc.pages[2].items[2].bbox = BoxLow
    /\ XCenter2(doc.pages[2].items[2]) < XCenter2(doc.pages[2].items[1])

\* A two-column page where both blocks start at the same height and the
\* left-column block is read first.
C25_WitnessTie ==
    /\ pc = "merged"
    /\ Len(doc.pages) = 2
    /\ Len(doc.pages[2].items) = 2
    /\ doc.pages[2].items[1].bbox = BoxNarrow
    /\ doc.pages[2].items[2].bbox = BoxInner

-----------------------------------------------------------------------------
(* SpecPipe: merge_document followed by pass 1 and the page-number offset of *)
(* classify_document, as run_pipeline calls them, for a manifest of MaxPages *)
(* pages of 100 x 100.                                                       *)

\* In the footer area of the Classifier (y0 > 85%), ending at 90% exactly.
BoxLowFooter == BBox(60, 86, 90, 90)

\* A body block and the printed page number 4 in the header region.
PipeHeaderNumber == [blocks |-> <<Blk(<<"tase">>, BoxBody), Blk(<<"4">>, BoxHeader)>>,
                     tables |-> <<>>]

\* The printed page number 4 in the footer region.
PipeFooterNumber == [blocks |-> <<Blk(<<"tase">>, BoxBody), Blk(<<"4">>, BoxFooter)>>,
                     tables |-> <<>>]

\* The printed page number 4 just above the footer region.
PipeLowNumber == [blocks |-> <<Blk(<<"4">>, BoxLowFooter)>>, tables |-> <<>>]

\* A page of contents with a number in the header region, and one with a
\* number in the footer region.
PipeTocHeader == [blocks |-> <<Blk(<<"Sisallysluettelo">>, BoxBody), Blk(<<"3">>, BoxHeader)>>,
                  tables |-> <<>>]

PipeTocFooter == [blocks |-> <<Blk(<<"Sisallysluettelo">>, BoxBody), Blk(<<"4">>, BoxFooter)>>,
                  tables |-> <<>>]

PipeKindsAt(pos) ==
    CASE pos = 1 -> {KindCover}
      [] pos = 2 -> {KindToc, KindCover}
      [] pos = 3 -> {KindCover}
      [] OTHER -> {PipeHeaderNumber, PipeFooterNumber, PipeLowNumber, PipeTocHeader,
                   PipeTocFooter, KindTall, KindBalanceTable, KindEmpty}

PipeInputs ==
    {[pages |-> [pos \in 1..MaxPages |-> PageData(pos - 1)],
      all_blocks |-> [idx \in 0..(MaxPages - 1) |-> RawBlocks(idx, kinds[idx + 1].blocks)],
      all_tables |-> [idx \in 0..(MaxPages - 1) |-> RawTables(idx, kinds[idx + 1].tables)]] :
        kinds \in {f \in [1..MaxPages -> UNION {PipeKindsAt(pos) : pos \in 1..MaxPages}] :
                      \A pos \in 1..MaxPages : f[pos] \in PipeKindsAt(pos)}}

InitPipe ==
    /\ input \in PipeInputs
    /\ doc = MkDocument(<<>>)
    /\ pc = "pipe_merge"
    /\ behav = NoBehav
    /\ ran = <<>>
    /\ report = <<>>
    /\ files = {}
    /\ runs = 0
    /\ findings = <<>>
    /\ StageIdle

\* run_all.py: document = merge_document(manifest, all_blocks, all_tables)
Pipe_MergeDocument ==
    /\ pc = "pipe_merge"
    /\ doc' = merge_document(input.pages, input.all_blocks, input.all_tables)
    /\ pc' = "pipe_pass1"
    /\ UNCHANGED <<input, qaVars, findings, stageVars>>

\* classify_document, lines 544-556: the first loop over all pages.
Pipe_Pass1 ==
    /\ pc = "pipe_pass1"
    /\ doc' = [doc EXCEPT !.pages = [p \in 1..Len(doc.pages) |->
                                        WithLabel(doc.pages[p], Pass1Label(doc.pages[p]))]]
    /\ pc' = "pipe_offset"
    /\ UNCHANGED <<input, qaVars, findings, stageVars>>

\* classify_document, lines 559-560: the offset is computed and stored.
Pipe_ComputeOffset ==
    /\ pc = "pipe_offset"
    /\ page_offset' = SomeInt(calculate_page_number_offset(doc))
    /\ doc' = [doc EXCEPT !.page_number_offset = SomeInt(calculate_page_number_offset(doc))]
    /\ pc' = "pipe_done"
    /\ UNCHANGED <<input, qaVars, findings, refined, cursor, toc_target_map, hist>>

NextPipe == Pipe_MergeDocument \/ Pipe_Pass1 \/ Pipe_ComputeOffset

SpecPipe == InitPipe /\ [][NextPipe]_vars

\* Whether merge_document detected the page at position p as TOC.
MergerDetectedToc(p) ==
    is_toc_page(GetList(input.all_blocks, input.pages[p].page_index)
                \o GetList(input.all_tables, input.pages[p].page_index))

\* The Blocks of a page.
PageBlocks(page) == SelectSeq(page.items, IsBlock)

\* C26: in a Document produced by merge_document every Block on a page the
\* Merger did not detect as TOC has y0 >= 10% and y1 <= 90% of the page
\* height; so the header scan of calculate_page_number_offset finds candidates
\* only on pages the Merger detected as TOC, and its footer scan never sees a
\* block that ends in the bottom 10% of a non-TOC page.
C26_HeaderFooterStripped ==
    pc \in {"pipe_pass1", "pipe_offset", "pipe_done"} =>
        \A p \in 1..Len(doc.pages) :
            /\ ~MergerDetectedToc(p) =>
                  \A k \in 1..Len(PageBlocks(doc.pages[p])) :
                      /\ 10 * PageBlocks(doc.pages[p])[k].bbox.y0 >= doc.pages[p].height
                      /\ 10 * PageBlocks(doc.pages[p])[k].bbox.y1 <= 9 * doc.pages[p].height
                      /\ ~InHeaderArea(PageBlocks(doc.pages[p])[k], doc.pages[p].height)
            /\ (p \in ScannedPositions(doc) /\ HeaderOffsets(doc.pages[p]) # <<>>)
                  => MergerDetectedToc(p)

\* The offset was computed for a Document whose fourth page is not TOC and
\* lost its footer block "4", and whose fifth page is TOC and kept the number
\* in its header region, the only candidate found.
C26_Witness ==
    /\ pc = "pipe_done"
    /\ ~MergerDetectedToc(4)
    /\ Len(input.all_blocks[3]) = 2
    /\ Len(doc.pages[4].items) = 1
    /\ MergerDetectedToc(5)
    /\ HeaderOffsets(doc.pages[5]) = <<1>>
    /\ CandidateOffsets(doc) = <<1>>
    /\ page_offset = SomeInt(1)

\* The footer scan found the number of a non-TOC page in a block that ends at
\* 90% of the page height exactly.
C26_WitnessLow ==
    /\ pc = "pipe_done"
    /\ ~MergerDetectedToc(4)
    /\ FooterOffsets(doc.pages[4]) = <<0 - 1>>

-----------------------------------------------------------------------------
(* The low-confidence retry of pass 2.                                       *)

\* The turns of pass 2 that reached the retry: the page was neither skipped,
\* nor a TOC target, nor labelled by the hard rules, and its pass-1
\* confidence was below 0.3.
RetrySteps ==
    {k \in Steps("pass2") : /\ hist[k].via \in {"retry", "kept"}
                            /\ Pass1LabelOf(hist[k].page).confidence < 30}

\* C27: the low-confidence retry of pass 2 never changes a page's
\* semantic_section or semantic_confidence: every page that reaches the retry
\* leaves it with the label and confidence it had after pass 1.
C27_RetryChangesNothing ==
    \A k \in RetrySteps :
        /\ hist[k].via = "kept"
        /\ hist[k].label = Pass1LabelOf(hist[k].page)
        /\ (pc = "pass2" /\ cursor = hist[k].page + 1) =>
              /\ doc.pages[hist[k].page].semantic_section = Pass1LabelOf(hist[k].page).section
              /\ doc.pages[hist[k].page].semantic_confidence =
                     SomeInt(Pass1LabelOf(hist[k].page).confidence)

\* Pass 2 has retried a page that pass 1 left as 'appendix' with confidence 0.1.
C27_Witness ==
    \E k \in RetrySteps :
        /\ Pass1LabelOf(hist[k].page) = Label("appendix", 10)
        /\ classify_page_section(input.pages[hist[k].page]).section = NoValue
        /\ doc.pages[hist[k].page].semantic_section = "appendix"

-----------------------------------------------------------------------------
(* The TOC branches of refine_block_types.                                   *)

\* The branch of the table loop (lines 251-290) that decides about a table.
RefineBranch(table, is_page_toc) ==
    IF is_page_toc THEN "page_toc"
    ELSE IF detect_toc_pattern(table) THEN "table_toc"
    ELSE IF ~validate_table_structure(table) THEN "invalid"
    ELSE "kept"

\* Whether refine_block_types treated the page idx as TOC (lines 245-246).
RefinerDetectedToc(idx) ==
    is_toc_page(GetList(input.all_blocks, idx) \o GetList(input.all_tables, idx))

\* C28: if any table of a page matches detect_toc_pattern, the whole page is
\* treated as TOC and every table of the page is converted to text blocks,
\* tables that pass validate_table_structure included; the per-table TOC
\* branch never decides: no table is converted by it on a page that is not
\* page-level TOC.
C28_TableTocBranchNeverDecides ==
    (pc \in {"merge", "merged"} /\ hist # <<>> /\ hist[1] = "refine_block_types") =>
        \A idx \in PageIndices(input.pages) :
            LET blocks == GetList(input.all_blocks, idx)
                tables == GetList(input.all_tables, idx)
            IN  /\ \A k \in 1..Len(tables) :
                       RefineBranch(tables[k], RefinerDetectedToc(idx)) # "table_toc"
                /\ (\E k \in 1..Len(tables) : detect_toc_pattern(tables[k])) =>
                       /\ RefinerDetectedToc(idx)
                       /\ refined[1].tables[idx] = <<>>
                       /\ refined[1].blocks[idx] =
                              blocks \o Flatten([k \in 1..Len(tables) |->
                                         convert_toc_to_text_blocks(tables[k], idx)])

\* The first page holds a table with dotted leaders and a table that passes
\* validate_table_structure, and no block; the Refiner kept no table.
C28_Witness ==
    /\ pc = "merge" /\ hist = <<"refine_block_types">>
    /\ input.all_blocks[0] = <<>>
    /\ Len(input.all_tables[0]) = 2
    /\ \E k \in 1..2 : detect_toc_pattern(input.all_tables[0][k])
    /\ \E k \in 1..2 : /\ validate_table_structure(input.all_tables[0][k])
                       /\ ~detect_toc_pattern(input.all_tables[0][k])
    /\ ~is_toc_page_TextOnly(input.all_tables[0])
    /\ refined[1].tables[0] = <<>>
    /\ Len(refined[1].blocks[0]) >= 3

-----------------------------------------------------------------------------
(* SchemaChecker: checkers/schema_checker.py, and the model validation of    *)
(* schemas/models.py that merge_document runs into.                          *)

\* Page(page_index >= 0, width > 0, height > 0): whether constructing the
\* Page raises a ValidationError.
PageIsInvalid(page_data) ==
    page_data.page_index < 0 \/ page_data.width <= 0 \/ page_data.height <= 0

\* A variant of merge_document_raises without the validation of the pages.
merge_document_raises_CountOnly(pages_data) == Len(pages_data) <= 0

\* Whether merge_document raises: merge_page_elements constructs a Page for
\* every manifest entry, and PDFInfo(pages=len(pages)) requires pages > 0.
merge_document_raises(pages_data) ==
    \/ \E i \in 1..Len(pages_data) : PageIsInvalid(pages_data[i])
    \/ Len(pages_data) <= 0

\* not document.pdf: pdf is a required field holding a PDFInfo, an object
\* that defines neither __bool__ nor __len__, so it is never falsy.
PdfIsMissing(d) == FALSE

InvalidDimensions(page) ==
    IF page.width <= 0 \/ page.height <= 0
    THEN <<Finding("SchemaChecker", page.page_index, "error", "Invalid page dimensions")>>
    ELSE <<>>

\* SchemaChecker.check(document): the three error conditions, in order.
SchemaChecker_check(d) ==
    (IF PdfIsMissing(d)
     THEN <<Finding("SchemaChecker", 0, "error", "Missing PDF metadata")>> ELSE <<>>)
    \o (IF Len(d.pages) = 0
        THEN <<Finding("SchemaChecker", 0, "error", "No pages in document")>> ELSE <<>>)
    \o Flatten([p \in 1..Len(d.pages) |-> InvalidDimensions(d.pages[p])])

-----------------------------------------------------------------------------
(* SpecSchema: merge_document on a manifest of up to MaxSchemaPages pages,   *)
(* whose entries may carry non-positive dimensions, followed by              *)
(* normalize_and_validate with the SchemaChecker as written.                 *)

MaxSchemaPages == 2

\* What a manifest entry may hold for a page: the dimensions, and no block, a
\* block in the body or a block in the header region.
SchemaPageKinds ==
    {[width |-> w, height |-> h, blocks |-> bs] :
        w \in {0, 100}, h \in {0 - 1, 100},
        bs \in {<<>>, <<Blk(<<"tase">>, BoxBody)>>, <<Blk(<<"tase">>, BoxHeader)>>}}

SchemaInputs ==
    {[pages |-> [pos \in 1..n |-> [page_index |-> pos - 1, width |-> kinds[pos].width,
                                   height |-> kinds[pos].height]],
      all_blocks |-> [idx \in 0..(n - 1) |-> RawBlocks(idx, kinds[idx + 1].blocks)],
      all_tables |-> [idx \in 0..(n - 1) |-> <<>>]] :
        n \in 0..MaxSchemaPages, kinds \in [1..MaxSchemaPages -> SchemaPageKinds]}

InitSchema ==
    /\ input \in SchemaInputs
    /\ doc = MkDocument(<<>>)
    /\ pc = "sch_start"
    /\ behav = NoBehav
    /\ ran = <<>>
    /\ report = <<>>
    /\ files = {}
    /\ runs = 0
    /\ findings = <<>>
    /\ StageIdle

\* merge_document(manifest, all_blocks, all_tables): it raises, or returns the
\* Document that normalize_and_validate is then called with.
Schema_MergeDocument ==
    /\ pc = "sch_start"
    /\ IF merge_document_raises(input.pages)
       THEN doc' = doc /\ pc' = "sch_merge_raised"
       ELSE /\ doc' = merge_document(input.pages, input.all_blocks, input.all_tables)
            /\ pc' = "nv_start"
    /\ UNCHANGED <<input, qaVars, findings, stageVars>>

\* run_qa_checks(normalized) with SchemaChecker returning what its check()
\* returns; the six other checkers all raise, all return nothing or all
\* return one finding.
Schema_RunQaChecks ==
    /\ pc = "nv_normalized"
    /\ \E kind \in OutcomeKinds :
          LET outcomes == [c \in CheckerNames |->
                  IF c = "SchemaChecker"
                  THEN [raises |-> FALSE, findings |-> SchemaChecker_check(doc)]
                  ELSE CheckOutcome(c, kind)]
              r == run_qa_checks(doc, outcomes)
          IN  behav' = outcomes /\ report' = <<r.report>> /\ ran' = r.ran
    /\ pc' = "nv_checked"
    /\ UNCHANGED <<doc, input, files, runs, findings, stageVars>>

NextSchema ==
    Schema_MergeDocument \/ NV_Guard \/ NV_Normalize \/ Schema_RunQaChecks \/ NV_Save

SpecSchema == InitSchema /\ [][NextSchema]_vars

\* C29: for every Document built by merge_document, a QAReport returned by
\* normalize_and_validate has schema_valid = true: none of SchemaChecker's
\* three error conditions is reachable, because model validation at
\* construction and the empty-document guard reject such documents before
\* SchemaChecker runs.
C29_SchemaAlwaysValid ==
    /\ pc \in {"nv_start", "nv_guarded", "nv_normalized", "nv_checked", "nv_returned"} =>
          /\ Len(doc.pages) > 0
          /\ \A p \in 1..Len(doc.pages) : doc.pages[p].width > 0 /\ doc.pages[p].height > 0
    /\ pc \in {"nv_normalized", "nv_checked", "nv_returned"} =>
          /\ ~DocumentIsEmpty(doc)
          /\ SchemaChecker_check(doc) = <<>>
    /\ pc \in {"nv_checked", "nv_returned"} =>
          /\ report[1].schema_valid
          /\ FindingsOf(report[1].findings, "SchemaChecker") = <<>>

\* normalize_and_validate returned a report for a merged Document of two
\* pages, one of which lost its only block to the header removal, while the
\* other checkers returned findings.
C29_Witness ==
    /\ pc = "nv_returned"
    /\ Len(doc.pages) = 2
    /\ \E p \in 1..2 : doc.pages[p].items = <<>> /\ input.all_blocks[p - 1] # <<>>
    /\ report[1].schema_valid
    /\ Len(report[1].findings) = Len(Checkers) - 1

\* A manifest entry with width 0 made merge_document raise.
C29_WitnessRejected ==
    /\ pc = "sch_merge_raised"
    /\ \E i \in 1..Len(input.pages) : input.pages[i].width = 0

\* A merged Document whose pages hold no item made the guard raise.
C29_WitnessGuard ==
    /\ pc = "nv_raised"
    /\ Len(doc.pages) = 2
    /\ DocumentIsEmpty(doc)

-----------------------------------------------------------------------------
(* SpecExact: normalize_and_validate on a one-page Document whose table      *)
(* holds a cell with an arbitrary text of up to MaxCellLen characters.       *)

MaxCellLen == 3

ExactAlphabet == {" ", "a", "1", "-", ".", ",", "(", ")", EUR, "%"}

\* One table with the cell alone or followed by an empty cell, a table
\* without cells, and a page without any table.
ExactDocs ==
    {MkDocument(<<MkPage(0, 100, 100, <<MkTable("t1", PageBox, <<MkCell(0, 0, t)>> \o more)>>)>>) :
        t \in SeqsUpTo(ExactAlphabet, MaxCellLen), more \in {<<>>, <<MkCell(0, 1, <<>>)>>}}
    \cup {MkDocument(<<MkPage(0, 100, 100, <<MkTable("t1", PageBox, <<>>)>>)>>),
          MkDocument(<<MkPage(0, 100, 100, <<MkBlock("b1", <<"1", "a">>, PageBox)>>)>>)}

InitExact ==
    /\ doc \in ExactDocs
    /\ input = doc
    /\ pc = "nv_start"
    /\ behav = NoBehav
    /\ ran = <<>>
    /\ report = <<>>
    /\ files = {}
    /\ runs = 0
    /\ findings = <<>>
    /\ StageIdle

NextExact == NV_Guard \/ NV_Normalize \/ Schema_RunQaChecks \/ NV_Save

SpecExact == InitExact /\ [][NextExact]_vars

\* C30: in every report returned by normalize_and_validate
\* unparseable_numbers_percent is 0: after normalize_document every Cell whose
\* text contains a digit has a non-null value_num; empty_cells_percent and
\* unparseable_numbers_percent are both 0 when the document has no table cell.
C30_NoUnparseableNumbers ==
    pc \in {"nv_checked", "nv_returned"} =>
        /\ report[1].table_cell_exactness.unparseable_numbers_percent.num = 0
        /\ \A i \in 1..Len(DocumentCells(doc)) :
               HasDigit(DocumentCells(doc)[i].text_raw)
                   => DocumentCells(doc)[i].value_num # NoNumber
        /\ DocumentCells(doc) = <<>> =>
               report[1].table_cell_exactness.empty_cells_percent.num = 0

\* A report was returned for a table whose first cell holds a digit between
\* other characters, which parsed, and whose second cell is empty.
C30_Witness ==
    /\ pc = "nv_returned"
    /\ Len(DocumentCells(doc)) = 2
    /\ DocumentCells(doc)[1].text_raw = <<"a", "1", "(">>
    /\ DocumentCells(doc)[1].value_num = [m |-> 1, e |-> 0]
    /\ report[1].table_cell_exactness.empty_cells_percent = [num |-> 100, den |-> 2]
    /\ report[1].table_cell_exactness.unparseable_numbers_percent = [num |-> 0, den |-> 2]

\* A report was returned for a document without table cells.
C30_WitnessNoCells ==
    /\ pc = "nv_returned"
    /\ DocumentCells(doc) = <<>>
    /\ report[1].table_cell_exactness.empty_cells_percent = [num |-> 0, den |-> 1]

====
